---- MODULE Spec2Model ----
(***************************************************************************)
(* Realtime session layer of skapi-js (src/unnamed/part_001, lines         *)
(* 1266-2311): one websocket connection with reconnect and backoff,        *)
(* heartbeat, join/leave of a room, the inbound frame router and the       *)
(* room-membership tracker.                                                *)
(*                                                                         *)
(* JavaScript scheduling is modelled explicitly.  A handler or an API call *)
(* runs to its first `await`; what follows the await is a continuation.    *)
(* A continuation that awaits an already resolved promise is appended to   *)
(* the microtask queue `micro`; one that awaits a pending promise waits in *)
(* `waiters` of that connection attempt until its transport opens.  Host   *)
(* events (timers, socket events) are macrotasks: they fire only when the  *)
(* microtask queue is empty.  Calls of the application may happen at any   *)
(* point (from a callback or from a microtask of its own).                 *)
(***************************************************************************)
EXTENDS Integers, Sequences, FiniteSets, TLC

\* ---------------------------------------------------------------- bounds
\* connection attempts (promise + timer + transport) alive at the same time
MaxConn == 2
\* largest value of reconnectAttempts followed by the specification Spec
MaxSeenAttempts == 2
\* largest value of reconnectAttempts followed by the specification SpecBackoff
MaxBackoffAttempts == 11
\* continuations queued at once by calls of the application
MaxQueue == 1
\* get-ws-group requests in flight at once
MaxQueries == 2
\* notice handlers awaiting one request at once
MaxAwaiting == 2
\* remote offers, and remote candidates, buffered for a peer
MaxBuffered == 2
\* descriptions and candidates that frames give to an existing peer connection
MaxApplied == 1

\* ------------------------------------------------------ program constants
maxAttempts == 10
BaseDelayMs == 1000
MaxDelayMs == 30000

Conns == 1..MaxConn
Queries == 1..MaxQueries
NoRoom == "null"
\* let __mediaStream = null
NoStream == "null"
Rooms == {"r1", "r2"}
RouterRooms == {"r1"}
Users == {"u1", "u2"}
\* the connections the relay reports: u1 is connected twice, u2 once
Peers == {<<"u1", "c1">>, <<"u1", "c2">>, <<"u2", "c1">>}
FreeQuery == [st |-> "free", group |-> "", filtered |-> FALSE]
\* the keys of the per-peer maps of the call signaling: a user id or a room id
PeerIds == {"u2", "r1"}
\* the labels (protocols) of the data channels of a call
Labels == {"a", "b"}

VARIABLES
    reconnectAttempts,    \* let reconnectAttempts
    __socket,             \* let __socket: 0 (null/undefined) or the attempt whose promise it holds
    __socket_room,        \* let __socket_room
    __keepAliveInterval,  \* let __keepAliveInterval: 0 (null) or the transport whose interval it is
    conn,                 \* the connection attempts created by connectRealtime
    waiters,              \* continuations awaiting the promise of a pending attempt
    micro,                \* microtask queue
    hung,                 \* kinds of continuations that await a promise which can never resolve
    __roomList,           \* let __roomList: group -> user_id -> array of connection ids
    __roomPending,        \* let __roomPending: group -> 0 (no entry) or the request whose promise it holds
    queries,              \* the get-ws-group requests in flight
    qwait,                \* notice handlers awaiting the promise of a request
    inbound,              \* the inbound frame handed to the pure classification of the router
    __peerConnection,     \* let __peerConnection: peer id -> <<>> (no entry) or <<the RTCPeerConnection>>
    __dataChannel,        \* let __dataChannel: peer id -> <<>> (no entry) or <<the labels of its map, in insertion order>>
    __rtcSdpOffer,        \* let __rtcSdpOffer: peer id -> buffered remote offers
    __rtcCandidates,      \* let __rtcCandidates: peer id -> buffered remote candidates
    __caller_ringing,     \* let __caller_ringing: peer id -> whether a pickup function is stored
    __receiver_ringing,   \* let __receiver_ringing: peer id -> true once a handle was given out
    peerCallbacks,        \* let peerCallbacks: peer id -> whether a callback is registered
    channels,             \* the RTCDataChannel objects: peer id -> label -> readyState
    receivers,            \* the msg.receiveRTC functions the application holds
    __mediaStream,        \* let __mediaStream: "null" or the stream of the last call that had one
    replayed,             \* history: <<>>, or <<the connections left by replaying the join
                          \* and leave notices received in a room, in the order of receipt>>
    last,                 \* observation of the last step: operation, events given to cb, frames sent
    closesSinceOpen,      \* history: unexpected closes since the last onopen
    lostRoom,             \* history: room joined when the connection was lost unexpectedly
    terminalErrors        \* history: terminal error events since the last connectRealtime call

vars == <<reconnectAttempts, __socket, __socket_room, __keepAliveInterval, conn,
          waiters, micro, hung, __roomList, __roomPending, queries, qwait, inbound,
          __peerConnection, __dataChannel, __rtcSdpOffer, __rtcCandidates,
          __caller_ringing, __receiver_ringing, peerCallbacks, channels, receivers,
          __mediaStream, replayed, last, closesSinceOpen, lostRoom, terminalErrors>>

rtcVars == <<__peerConnection, __dataChannel, __rtcSdpOffer, __rtcCandidates,
             __caller_ringing, __receiver_ringing, peerCallbacks, channels, receivers,
             __mediaStream>>

histVars == <<closesSinceOpen, lostRoom, terminalErrors>>

\* ---------------------------------------------------------------- helpers
Min(a, b) == IF a < b THEN a ELSE b

FreeConn == [st |-> "free", delay |-> 0, opened |-> FALSE, hb |-> FALSE]

\* Math.min(1000 * (2 ** reconnectAttempts), 30000)
Delay_Uncapped(n) == BaseDelayMs * (2 ^ n)

Delay(n) == Min(BaseDelayMs * (2 ^ n), MaxDelayMs)

\* The program state a handler works on, with the events and frames of the step.
Cur ==
    [ra |-> reconnectAttempts, socket |-> __socket, room |-> __socket_room,
     kai |-> __keepAliveInterval, conn |-> conn, waiters |-> waiters,
     micro |-> micro, hung |-> hung, roomList |-> __roomList,
     roomPending |-> __roomPending, queries |-> queries, qwait |-> qwait,
     pc |-> __peerConnection, dc |-> __dataChannel, offers |-> __rtcSdpOffer,
     cands |-> __rtcCandidates, callerRinging |-> __caller_ringing,
     receiverRinging |-> __receiver_ringing, peerCb |-> peerCallbacks,
     channels |-> channels, receivers |-> receivers, mediaStream |-> __mediaStream,
     ev |-> <<>>, sent |-> <<>>, dlv |-> <<>>, pev |-> <<>>, ops |-> <<>>,
     made |-> 0, lost |-> 0, res |-> "ok"]

\* A closed (or failed) attempt nothing refers to any more is forgotten.
Collectable(s, k) ==
    /\ s.conn[k].st \in {"closed", "dead"}
    /\ s.socket # k
    /\ ~s.conn[k].hb
    /\ \A i \in 1..Len(s.micro) : s.micro[i].sock # k

Collect(s) ==
    [s EXCEPT !.conn = [k \in Conns |-> IF Collectable(s, k) THEN FreeConn ELSE s.conn[k]]]

HasFree(s) == \E k \in Conns : s.conn[k].st = "free"

NewSlot(s) == CHOOSE k \in Conns : s.conn[k].st = "free" /\ \A j \in Conns : j < k => s.conn[j].st # "free"

Emit(s, e) == [s EXCEPT !.ev = Append(@, e)]

\* how the call or handler of the step ended
Result(s, r) == [s EXCEPT !.res = r]

\* socket.send(frame) on transport k; a closing or closed transport discards the data.
Send(s, k, frame) ==
    [s EXCEPT !.sent = Append(@, [on |-> k, live |-> (s.conn[k].st = "open"), frame |-> frame])]

\* the calls of the application among the continuations q
HungKinds(q) == {q[i].kind : i \in {j \in 1..Len(q) : q[j].by = "user"}}

\* `let socket = __socket ? await __socket : __socket` with __socket a promise:
\* the rest of the caller continues when the promise of attempt k is resolved.
Await(s, k, cont) ==
    IF s.conn[k].opened
    THEN [s EXCEPT !.micro = Append(@, [cont EXCEPT !.sock = k])]
    ELSE IF s.conn[k].st \in {"closed", "dead"}
         THEN [s EXCEPT !.hung = @ \cup HungKinds(<<cont>>)]
         ELSE [s EXCEPT !.waiters[k] = Append(@, cont)]

\* ------------------------------------------------------------ inbound frames
\* A JSON value: its type and its text.  A field of the parsed object is <<>>
\* when the key is absent (undefined) and <<value>> when it is present.
Str(v) == [t |-> "string", v |-> v]
Obj(v) == [t |-> "object", v |-> v]
JNull == [t |-> "null", v |-> "null"]

\* JavaScript truthiness of data?.[key]
Truthy(f) ==
    /\ f # <<>>
    /\ f[1].t # "null"
    /\ ~(f[1].t = "string" /\ f[1].v = "")
    /\ ~(f[1].t = "number" /\ f[1].v = "0")

NoData ==
    [message |-> <<>>, private |-> <<>>, notice |-> <<>>, rtc |-> <<>>,
     user_id |-> <<>>, scid |-> <<>>, srid |-> <<>>]

NoFrame == [enc |-> "none", data |-> NoData]

\* JSON.parse(decodeURI(event.data)): decodeURI throws on a malformed escape
\* sequence ("baduri"), JSON.parse on text that is not JSON ("badjson").  A
\* JSON text that is no object (null, a number) has none of the keys.
Parse_Lenient(raw) == [ok |-> TRUE, data |-> raw.data]

Parse(raw) == [ok |-> (raw.enc = "ok"), data |-> raw.data]

\* the if / else-if chain that sets `type`
Classify(data) ==
    IF Truthy(data.message) THEN "message"
    ELSE IF Truthy(data.private) THEN "private"
    ELSE IF Truthy(data.notice) THEN "notice"
    ELSE IF Truthy(data.rtc) THEN "rtc"
    ELSE "message"

\* data?.['#rtc'] || data?.['#message'] || data?.['#private'] || data?.['#notice'] || null
Payload(data) ==
    IF Truthy(data.rtc) THEN data.rtc[1]
    ELSE IF Truthy(data.message) THEN data.message[1]
    ELSE IF Truthy(data.private) THEN data.private[1]
    ELSE IF Truthy(data.notice) THEN data.notice[1]
    ELSE JNull

\* the msg object given to the callback
BuildMsg(data) ==
    [type |-> Classify(data),
     message |-> Payload(data),
     sender |-> IF Truthy(data.user_id) THEN data.user_id ELSE <<>>,
     sender_cid |-> IF Truthy(data.scid) THEN <<Str("scid:" \o data.scid[1].v)>> ELSE <<>>,
     sender_rid |-> IF Truthy(data.srid) THEN data.srid ELSE <<>>]

NoMsg == BuildMsg(NoData)

\* a property key or array element read from an optional field of msg
KeyOf(f) == IF f = <<>> THEN "undefined" ELSE f[1].v

LeftPhrase == " has left the message group."
DisconnectedPhrase == " has been disconnected."
JoinedPhrase == " has joined the message group."

\* String.prototype.includes on the notice texts of the model
Includes(text, phrase) == \E u \in Users : text = u \o phrase

\* which branch of the notice handling a notice text takes
NoticeKind(text) ==
    IF Includes(text, LeftPhrase) \/ Includes(text, DisconnectedPhrase) THEN "leave"
    ELSE IF Includes(text, JoinedPhrase) THEN "join"
    ELSE "none"

\* ---------------------------------------------------------------- __roomList
HasUser(rl, g, u) == g \in DOMAIN rl /\ u \in DOMAIN rl[g]

UsersOf(rl, g) == IF g \in DOMAIN rl THEN DOMAIN rl[g] ELSE {}

\* __roomList[g][u] = arr (creating __roomList[g] when it is missing)
SetUser(rl, g, u, arr) ==
    [x \in DOMAIN rl \cup {g} |->
        IF x = g
        THEN [y \in UsersOf(rl, g) \cup {u} |-> IF y = u THEN arr ELSE rl[g][y]]
        ELSE rl[x]]

\* delete __roomList[g][u]
DelUser(rl, g, u) ==
    [x \in DOMAIN rl |-> IF x = g THEN [y \in DOMAIN rl[g] \ {u} |-> rl[g][y]] ELSE rl[x]]

\* if (!__roomList[g]) __roomList[g] = {}
EnsureRoom(rl, g) ==
    IF g \in DOMAIN rl THEN rl ELSE [x \in DOMAIN rl \cup {g} |-> IF x = g THEN <<>> ELSE rl[x]]

ArrIncludes(arr, c) == \E i \in 1..Len(arr) : arr[i] = c

Without(arr, c) == SelectSeq(arr, LAMBDA v : v # c)

\* the leave notice without the removal of an entry that became empty
LeaveApply_KeepsEmptyEntry(rl, g, u, c) ==
    LET rl1 == IF HasUser(rl, g, u) THEN SetUser(rl, g, u, Without(rl[g][u], c)) ELSE rl
    IN  [rl |-> rl1, return |-> HasUser(rl1, g, u)]

\* lines 2025-2036: the leave / disconnect notice applied to room g
LeaveApply(rl, g, u, c) ==
    LET rl1 == IF HasUser(rl, g, u) THEN SetUser(rl, g, u, Without(rl[g][u], c)) ELSE rl
        rl2 == IF HasUser(rl1, g, u) /\ Len(rl1[g][u]) = 0 THEN DelUser(rl1, g, u) ELSE rl1
    IN  [rl |-> rl2, return |-> HasUser(rl2, g, u)]

\* the join notice that pushes the connection id without looking for it
JoinApply_PushesAlways(rl, g, u, c) ==
    LET rl1 == EnsureRoom(rl, g)
    IN  IF ~HasUser(rl1, g, u)
        THEN [rl |-> SetUser(rl1, g, u, <<c>>), return |-> FALSE]
        ELSE [rl |-> SetUser(rl1, g, u, Append(rl1[g][u], c)), return |-> TRUE]

\* lines 2043-2055: the join notice applied to room g
JoinApply(rl, g, u, c) ==
    LET rl1 == EnsureRoom(rl, g)
    IN  IF ~HasUser(rl1, g, u)
        THEN [rl |-> SetUser(rl1, g, u, <<c>>), return |-> FALSE]
        ELSE [rl |-> IF ArrIncludes(rl1[g][u], c) THEN rl1
                     ELSE SetUser(rl1, g, u, Append(rl1[g][u], c)),
              return |-> TRUE]

\* ------------------------------------------------------ addressing a frame
\* validator.UserId(recipient) of utils: whether the string is accepted as a user id
UserId(v) == v \in Users

\* extractFormData(message).data of utils: the data object of a form, a plain value as it is
ExtractFormData(message) == [kind |-> "data", v |-> message.v]

\* try { validator.UserId(recipient); send to uid } catch { room broadcast or throw }
Address_AnyRoom(s, sock, recipient, direct, room, content) ==
    IF UserId(recipient)
    THEN Send(s, sock, [action |-> direct, uid |-> recipient, content |-> content])
    ELSE IF s.room = NoRoom
    THEN Result(s, "throw")
    ELSE Send(s, sock, [action |-> room, rid |-> recipient, content |-> content])

Address(s, sock, recipient, direct, room, content) ==
    IF UserId(recipient)
    THEN Send(s, sock, [action |-> direct, uid |-> recipient, content |-> content])
    ELSE IF s.room # recipient
    THEN Result(s, "throw")
    ELSE Send(s, sock, [action |-> room, rid |-> recipient, content |-> content])

\* postRealtime after its await
PostRealtimeBody(s, sock, recipient, message) ==
    IF s.conn[sock].st # "open"
    THEN Result(s, "throw")
    ELSE Address(s, sock, recipient, "sendMessage", "broadcast", ExtractFormData(message))

\* ------------------------------------------------------------ call signaling
\* the value of #rtc: an object with the signal keys (FALSE / "": key absent)
NoSignal == [reject |-> FALSE, candidate |-> "", sdpoffer |-> "", pickup |-> FALSE, sdpanswer |-> ""]

\* the signal a frame carries
SignalOf(raw) == IF raw.enc # "ok" \/ raw.data.rtc = <<>> THEN NoSignal ELSE raw.data.rtc[1].v

PeerEvent(s, e) == [s EXCEPT !.pev = Append(@, e)]

Op(s, o) == [s EXCEPT !.ops = Append(@, o)]

\* Object.values(__dataChannel[recipient] || {}).forEach(channel => channel.close())
CloseChannels_None(s, p, ls) == s

RECURSIVE CloseChannels(_, _, _)
CloseChannels(s, p, ls) ==
    IF ls = <<>> THEN s
    ELSE LET l == Head(ls)
             s1 == IF s.channels[p][l] # "closed"
                   THEN Op([s EXCEPT !.channels[p][l] = "closing"],
                           "channel.close:" \o l \o ":" \o s.channels[p][l])
                   ELSE s
         IN  CloseChannels(s1, p, Tail(ls))

\* closeRTC({ recipient })
CloseRTCBody(s, p) ==
    LET s1 == [s EXCEPT !.offers[p] = <<>>, !.cands[p] = <<>>]
        s2 == IF s1.dc[p] # <<>> THEN CloseChannels(s1, p, s1.dc[p][1]) ELSE s1
        s3 == [s2 EXCEPT !.dc[p] = <<>>]
        s4 == IF s3.pc[p] # <<>>
              THEN PeerEvent(Op(s3, "pc.close"), "connectionstatechange")
              ELSE s3
    IN  [s4 EXCEPT !.pc[p] = <<>>]

\* new RTCPeerConnection(configuration): nothing was given to it yet, and
\* iceCandidateHandler is told to skip onnegotiationneeded, so it has no such handler;
\* awaited: the callers suspended on promises of this peer connection
NewPeerConnection ==
    [applied |-> <<>>, onnegotiationneeded |-> FALSE, tracks |-> NoStream, awaited |-> <<>>]

\* params.mediaStream given as a MediaStream: it becomes __mediaStream and its
\* tracks are added to the peer connection; without the parameter nothing is done
AddMedia(s, p, stream) ==
    IF stream = NoStream THEN s
    ELSE Op([s EXCEPT !.mediaStream = stream, !.pc[p][1].tracks = stream], "addTrack:" \o stream)

\* the pickup event with the mediaStream it exposes
Pickup(stream) == IF stream = NoStream THEN "pickup" ELSE "pickup:" \o stream

\* peerConnection.setRemoteDescription / addIceCandidate: what the peer connection was given
Apply(s, p, item) == [s EXCEPT !.pc[p][1].applied = Append(@, item)]

\* sdpanswer(msg, sdpoffer) once the socket is there: the offer is applied and answered
SdpAnswerBody(s, sock, p, offer) ==
    IF s.pc[p] = <<>>
    THEN Result(s, "throw")
    ELSE Send(Apply(s, p, offer), sock,
              [action |-> "rtc", uid |-> p, content |-> [sdpanswer |-> offer]])

RECURSIVE AnswerAll(_, _, _, _)
AnswerAll(s, sock, p, list) ==
    IF list = <<>> \/ s.res = "throw" THEN s
    ELSE AnswerAll(SdpAnswerBody(s, sock, p, Head(list)), sock, p, Tail(list))

RECURSIVE ApplyAll(_, _, _)
ApplyAll(s, p, list) ==
    IF list = <<>> THEN s ELSE ApplyAll(Apply(s, p, Head(list)), p, Tail(list))

\* the buffered candidates given to the peer connection ahead of the buffered offers
FlushBuffered_CandidatesFirst(s, sock, p) ==
    IF s.offers[p] # <<>>
    THEN LET a == [ApplyAll(s, p, s.cands[p]) EXCEPT !.cands[p] = <<>>]
         IN  [AnswerAll(a, sock, p, a.offers[p]) EXCEPT !.offers[p] = <<>>]
    ELSE s

\* lines 1728-1747: the buffered offers are answered and their buffer deleted,
\* then the buffered candidates are added and their buffer deleted
FlushBuffered(s, sock, p) ==
    IF s.offers[p] # <<>>
    THEN LET a == AnswerAll(s, sock, p, s.offers[p])
             b == [a EXCEPT !.offers[p] = <<>>]
         IN  [ApplyAll(b, p, b.cands[p]) EXCEPT !.cands[p] = <<>>]
    ELSE s

\* the function returned by receiveRTC(msg, rtc), after its await, when the
\* peer connection settles its promises before any other event (ReceiveRTCFrom
\* has the suspensions); the operations of one peer connection run in the
\* order they are issued
ReceiveRTCMediaBody(s, sock, p, offer, reject, stream) ==
    IF reject
    THEN Send(s, sock, [action |-> "rtc", uid |-> p, content |-> [reject |-> TRUE]])
    ELSE LET s1 == IF s.pc[p] = <<>>
                   THEN Op([s EXCEPT !.pc[p] = <<NewPeerConnection>>], "new RTCPeerConnection")
                   ELSE s
             s2 == [AddMedia(s1, p, stream) EXCEPT !.peerCb[p] = TRUE,
                              !.dc[p] = IF @ = <<>> THEN << <<>> >> ELSE @]
             s3 == FlushBuffered(s2, sock, p)
             s4 == IF offer # "" THEN SdpAnswerBody(s3, sock, p, offer) ELSE s3
             s5 == Send(s4, sock, [action |-> "rtc", uid |-> p, content |-> [pickup |-> TRUE]])
         IN  [PeerEvent(s5, Pickup(s5.mediaStream)) EXCEPT !.receiverRinging[p] = FALSE]

ReceiveRTCBody(s, sock, p, offer, reject) == ReceiveRTCMediaBody(s, sock, p, offer, reject, NoStream)

\* the answers of sdpanswer for the offers of list, sent once the peer
\* connection has settled setRemoteDescription, createAnswer and setLocalDescription
RECURSIVE SendAnswers(_, _, _, _)
SendAnswers(s, sock, p, list) ==
    IF list = <<>> THEN s
    ELSE SendAnswers(Send(s, sock, [action |-> "rtc", uid |-> p,
                                    content |-> [sdpanswer |-> Head(list)]]),
                     sock, p, Tail(list))

\* the accepting path of the function returned by receiveRTC, with its
\* suspensions on the promises of the peer connection.  stage "start" runs
\* lines 1689-1734 up to `await Promise.all`; "offers" resumes there and runs
\* to the second `await Promise.all` (1744); "candidates" resumes there and
\* runs to `await sdpanswer(msg, rtc.sdpoffer)` (1750); "answered" resumes
\* there and finishes (1753-1769).  setRemoteDescription and addIceCandidate
\* are issued to the peer connection before the suspension that waits for them.
ReceiveRTCFrom(s, sock, p, offer, stage) ==
    LET Wait(t, st) ==
            [t EXCEPT !.pc[p][1].awaited = Append(@, [stage |-> st, offer |-> offer, sock |-> sock]),
                      !.res = "await"]
        Finish(t) ==
            [PeerEvent(Send(t, sock, [action |-> "rtc", uid |-> p, content |-> [pickup |-> TRUE]]),
                       Pickup(t.mediaStream))
                EXCEPT !.receiverRinging[p] = FALSE]
        Own(t) == IF offer # "" THEN Wait(Apply(t, p, offer), "answered") ELSE Finish(t)
        Cands(t) == IF t.cands[p] # <<>>
                    THEN Wait(ApplyAll(t, p, t.cands[p]), "candidates")
                    ELSE Own(t)
        s1 == IF s.pc[p] = <<>>
              THEN Op([s EXCEPT !.pc[p] = <<NewPeerConnection>>], "new RTCPeerConnection")
              ELSE s
        s2 == [s1 EXCEPT !.peerCb[p] = TRUE, !.dc[p] = IF @ = <<>> THEN << <<>> >> ELSE @]
    IN  CASE stage = "start" ->
               IF s2.offers[p] # <<>>
               THEN Wait(ApplyAll(s2, p, s2.offers[p]), "offers")
               ELSE Own(s2)
          [] stage = "offers" ->
               Cands([SendAnswers(s, sock, p, s.offers[p]) EXCEPT !.offers[p] = <<>>])
          [] stage = "candidates" ->
               Own([s EXCEPT !.cands[p] = <<>>])
          [] stage = "answered" ->
               Finish(SendAnswers(s, sock, p, <<offer>>))

\* new channels for the requested protocols, in order; a label that exists throws
RECURSIVE CreateChannels(_, _, _)
CreateChannels(s, p, ls) ==
    IF ls = <<>> THEN s
    ELSE IF ArrIncludes(s.dc[p][1], Head(ls))
    THEN Result(s, "throw")
    ELSE CreateChannels(Op([s EXCEPT !.dc[p] = <<Append(@[1], Head(ls))>>,
                                     !.channels[p][Head(ls)] = "connecting"],
                           "createDataChannel:" \o Head(ls)),
                        p, Tail(ls))

\* sendOffer(recipient)
SendOffer(s, sock, p) ==
    Address(s, sock, p, "rtc", "rtcBroadcast", [sdpoffer |-> "local"])

\* connectRTC after its await
ConnectRTCMediaBody(s, sock, p, ls, stream) ==
    IF s.conn[sock].st # "open"
    THEN Result(s, "noop")
    ELSE LET s1 == IF s.pc[p] = <<>>
                   THEN Op([s EXCEPT !.pc[p] = <<NewPeerConnection>>], "new RTCPeerConnection")
                   ELSE s
             s2 == [AddMedia(s1, p, stream) EXCEPT !.peerCb[p] = TRUE,
                              !.dc[p] = IF @ = <<>> THEN << <<>> >> ELSE @]
             s3 == CreateChannels(s2, p, ls)
             s4 == IF s3.res = "throw" THEN s3 ELSE SendOffer(s3, sock, p)
         IN  IF s4.res = "throw" THEN s4 ELSE [s4 EXCEPT !.callerRinging[p] = TRUE]

ConnectRTCBody(s, sock, p, ls) == ConnectRTCMediaBody(s, sock, p, ls, NoStream)

\* sendOffer(recipient) called from onnegotiationneeded, after its await;
\* sock = 0 when there is no socket: socket.send throws in the try and again
\* in the catch branch
SendOfferBody(s, sock, p) ==
    IF s.pc[p] = <<>> \/ sock = 0 THEN Result(s, "throw") ELSE SendOffer(s, sock, p)

\* onicecandidate(event, recipient) after its await; sock = 0 when there is no
\* socket: socket.send then throws inside the try, and the catch branch throws
\* in its turn
OnIceCandidateBody(s, sock, p, candidate) ==
    IF candidate = "" THEN Result(s, "return")
    ELSE IF s.pc[p] = <<>> THEN Result(s, "throw")
    ELSE LET s1 == PeerEvent(s, "icecandidate")
         IN  IF sock = 0 THEN Result(s1, "throw")
             ELSE Address(s1, sock, p, "rtc", "rtcBroadcast", [candidate |-> candidate])

\* ------------------------------------------------------------- onmessage
\* cb(msg); the membership map the callback can observe is recorded with it
Deliver(s, msg) ==
    [s EXCEPT !.dlv = Append(@, [msg |-> msg, roomList |-> s.roomList, handle |-> FALSE])]

\* the notice handling after its await, then the rest of the handler
NoticeRest(s, msg) ==
    LET g == s.room
        u == KeyOf(msg.sender)
        c == KeyOf(msg.sender_cid)
        r == IF NoticeKind(msg.message.v) = "leave"
             THEN LeaveApply(s.roomList, g, u, c)
             ELSE JoinApply(s.roomList, g, u, c)
        s1 == [s EXCEPT !.roomList = r.rl]
    IN  IF r.return THEN Result(s1, "return") ELSE Deliver(s1, msg)

\* the id of the signed-in user (user.user_id of getProfile)
UserSelf == "u1"

\* the `if (type === 'rtc')` block; the handler goes on to cb(msg) unless res says otherwise
RejectSignal_KeepsCall(s, p) == Result(s, "return")

\* the reject arm of the rtc branch: teardown of the call when there is one, then return
RejectSignal(s, p) == Result(IF s.pc[p] # <<>> THEN CloseRTCBody(s, p) ELSE s, "return")

\* the rtc branch for a frame of another user; p is msg.sender
RtcSignal(s, k, msg, p) ==
    LET rtc == msg.message.v
    IN  IF rtc.reject
        THEN RejectSignal(s, p)
        ELSE LET s1 == IF rtc.candidate = "" THEN s
                       ELSE IF s.pc[p] # <<>> THEN Apply(s, p, rtc.candidate)
                       ELSE [s EXCEPT !.cands[p] = Append(@, rtc.candidate)]
                 ring == rtc.sdpoffer # "" /\ s1.pc[p] = <<>> /\ ~s1.receiverRinging[p]
                 s2 == IF rtc.sdpoffer = "" THEN s1
                       ELSE IF s1.pc[p] # <<>>
                       THEN IF s1.socket = 0
                            THEN s1
                            ELSE Await(s1, s1.socket,
                                       [kind |-> "sdpanswer", by |-> "host", sock |-> 0,
                                        group |-> p, msg |-> NoMsg, arg |-> rtc.sdpoffer])
                       ELSE [s1 EXCEPT !.offers[p] = Append(@, rtc.sdpoffer),
                                       !.receiverRinging[p] = TRUE,
                                       !.receivers = IF ring
                                                     THEN @ \cup {[peer |-> p, offer |-> rtc.sdpoffer]}
                                                     ELSE @]
                 s3 == IF rtc.pickup /\ s2.callerRinging[p]
                       THEN IF s2.pc[p] = <<>>
                            THEN Result(s2, "throw")
                            ELSE [PeerEvent(s2, Pickup(s2.mediaStream)) EXCEPT !.callerRinging[p] = FALSE,
                                                                !.pc[p][1].onnegotiationneeded = TRUE]
                       ELSE s2
                 s4 == IF s3.res = "throw" \/ rtc.sdpanswer = "" THEN s3
                       ELSE IF s3.pc[p] = <<>> THEN Result(s3, "throw")
                       ELSE Apply(s3, p, rtc.sdpanswer)
             IN  IF s4.res = "throw" THEN s4
                 ELSE [s4 EXCEPT !.dlv = Append(@, [msg |-> msg, roomList |-> s4.roomList,
                                                    handle |-> ring])]

\* the signal of a frame of the user's own handled as a signal of the peer
RtcBranch_OwnFramesHandled(s, k, msg) ==
    RtcSignal(s, k, msg, IF KeyOf(msg.sender) = UserSelf THEN "u2" ELSE KeyOf(msg.sender))

\* `if (type === 'rtc') { if (msg.sender !== user.user_id) { ... } }`, then cb(msg)
RtcBranch(s, k, msg) ==
    IF KeyOf(msg.sender) = UserSelf
    THEN Deliver(s, msg)
    ELSE RtcSignal(s, k, msg, KeyOf(msg.sender))

\* socket.onmessage
OnMessageHandler(s, k, raw) ==
    LET p == Parse(raw)
        msg == BuildMsg(p.data)
    IN  IF ~p.ok THEN Result(s, "dropped")
        ELSE IF msg.type = "notice" /\ s.room # NoRoom
        THEN IF msg.message.t # "string"
             THEN Result(s, "throw")
             ELSE IF NoticeKind(msg.message.v) = "none"
             THEN Deliver(s, msg)
             ELSE IF s.roomPending[s.room] # 0
             THEN [s EXCEPT !.qwait[s.roomPending[s.room]] =
                                Append(@, [kind |-> "notice", by |-> "host", sock |-> k,
                                           group |-> NoRoom, msg |-> msg, arg |-> 0]),
                            !.res = "await"]
             ELSE NoticeRest(s, msg)
        ELSE IF msg.type = "rtc" THEN RtcBranch(s, k, msg)
        ELSE Deliver(s, msg)

\* ---------------------------------------------------------- getRealtimeUsers
\* v.uid of a list entry is "<service>#<user_id>"
UidOf(u) == "svc#" \o u

\* v.uid.split('#')[1]
UserOfUid(uid) == CHOOSE u \in Users : uid = UidOf(u)

\* the .then callback: the list merged into __roomList[g]
RECURSIVE MergeList(_, _, _)
MergeList(rl, g, list) ==
    IF list = <<>> THEN rl
    ELSE LET u == UserOfUid(Head(list).uid)
             c == Head(list).cid
             rl1 == EnsureRoom(rl, g)
             rl2 == IF ~HasUser(rl1, g, u) THEN SetUser(rl1, g, u, <<c>>)
                    ELSE IF ~ArrIncludes(rl1[g][u], c) THEN SetUser(rl1, g, u, Append(rl1[g][u], c))
                    ELSE rl1
         IN  MergeList(rl2, g, Tail(list))

\* getRealtimeUsers(params) up to the return of the promise
GetRealtimeUsersCall(s, group, filtered) ==
    IF ~filtered /\ s.roomPending[group] # 0
    THEN [s EXCEPT !.res = "pending", !.made = s.roomPending[group]]
    ELSE LET q == CHOOSE x \in Queries : s.queries[x].st = "free" /\ \A y \in Queries : y < x => s.queries[y].st # "free"
             s1 == [s EXCEPT !.queries[q] = [st |-> "flying", group |-> group, filtered |-> filtered],
                             !.res = "request", !.made = q]
         IN  IF ~filtered THEN [s1 EXCEPT !.roomPending[group] = q] ELSE s1

\* the request q settles: .then (merge), .finally (delete the entry), then the awaiting handlers
RequestSettles(s, q, ok, list) ==
    LET g == s.queries[q].group
        s1 == IF ok /\ ~s.queries[q].filtered
              THEN [s EXCEPT !.roomList = MergeList(s.roomList, g, list)]
              ELSE s
        s2 == [s1 EXCEPT !.roomPending[g] = 0, !.queries[q] = FreeQuery, !.qwait[q] = <<>>]
    IN  IF ok
        THEN [s2 EXCEPT !.micro = @ \o s.qwait[q], !.res = "resolved"]
        ELSE [s2 EXCEPT !.lost = Len(s.qwait[q]), !.res = "rejected"]

\* ------------------------------------------------------------ closeRealtime
\* WebSocket.close(): an open transport starts its closing handshake.
SocketCloseMethod(s, k) ==
    IF s.conn[k].st \in {"open", "connecting"}
    THEN [s EXCEPT !.conn[k].st = "closing"]
    ELSE s

ClearKeepAlive(s) ==
    IF s.kai # 0
    THEN [s EXCEPT !.conn[s.kai].hb = FALSE, !.kai = 0]
    ELSE s

CloseRealtimeBody_KeepsRoom(s, sock) ==
    LET s1 == ClearKeepAlive(s)
        s2 == IF sock # 0 THEN SocketCloseMethod(s1, sock) ELSE s1
    IN  [s2 EXCEPT !.socket = 0]

\* closeRealtime after its await; sock is the awaited value (0: no socket)
CloseRealtimeBody(s, sock) ==
    LET s1 == ClearKeepAlive(s)
        s2 == IF sock # 0 THEN SocketCloseMethod(s1, sock) ELSE s1
    IN  [s2 EXCEPT !.socket = 0, !.room = NoRoom]

\* a call of closeRealtime(): synchronous when __socket is falsy
CloseRealtimeCall(s, by) ==
    IF s.socket = 0
    THEN CloseRealtimeBody(s, 0)
    ELSE Await(s, s.socket, [kind |-> "closeRealtime", by |-> by, sock |-> 0, group |-> NoRoom, msg |-> NoMsg, arg |-> 0])

\* ---------------------------------------------------------- connectRealtime
CreatesConnection(s) == s.ra # 0 \/ s.socket = 0

\* connectRealtime(cb, delay): a new promise and timer, or the existing promise
ConnectRealtimeCall(s, delay) ==
    IF CreatesConnection(s)
    THEN LET g == Collect([s EXCEPT !.socket = 0])
             j == NewSlot(g)
         IN  [g EXCEPT !.conn[j] = [st |-> "timer", delay |-> delay, opened |-> FALSE, hb |-> FALSE],
                       !.socket = j, !.made = j]
    ELSE s

CanConnect(s) == CreatesConnection(s) => HasFree(Collect([s EXCEPT !.socket = 0]))

\* ------------------------------------------------------------- joinRealtime
JoinRealtimeBody_LeavesFirst(s, sock, group) ==
    IF group = NoRoom /\ s.room = NoRoom
    THEN s
    ELSE LET s1 == IF s.room # NoRoom /\ group # NoRoom
                   THEN Send(s, sock, [action |-> "joinRoom", rid |-> NoRoom])
                   ELSE s
         IN  [Send(s1, sock, [action |-> "joinRoom", rid |-> group]) EXCEPT !.room = group]

\* joinRealtime after its await
JoinRealtimeBody(s, sock, group) ==
    IF group = NoRoom /\ s.room = NoRoom
    THEN s
    ELSE [Send(s, sock, [action |-> "joinRoom", rid |-> group]) EXCEPT !.room = group]

\* ------------------------------------------------------------------ commit
\* the history of the notices, where it is kept: a join notice adds the
\* connection of its sender, a leave notice removes it
Replay(h, note) ==
    IF h = <<>> \/ note = <<>> THEN h
    ELSE LET e == <<KeyOf(note[1].sender), KeyOf(note[1].sender_cid)>>
         IN  IF NoticeKind(note[1].message.v) = "join" THEN <<h[1] \cup {e}>>
             ELSE IF NoticeKind(note[1].message.v) = "leave" THEN <<h[1] \ {e}>>
             ELSE h

\* whether the connection that a membership notice names is in the tracker
Tracked(rl, g, msg) ==
    /\ HasUser(rl, g, KeyOf(msg.sender))
    /\ ArrIncludes(rl[g][KeyOf(msg.sender)], KeyOf(msg.sender_cid))

\* the membership notice that a step handles, with what the tracker held for it
\* before; it is recorded where the history of the notices is kept
Noted(note) ==
    IF note = <<>> \/ replayed = <<>> THEN <<>>
    ELSE <<[msg |-> note[1], tracked |-> Tracked(__roomList, __socket_room, note[1])]>>

Commit(s0, info) ==
    LET s == Collect(s0)
    IN  /\ reconnectAttempts' = s.ra
        /\ __socket' = s.socket
        /\ __socket_room' = s.room
        /\ __keepAliveInterval' = s.kai
        /\ conn' = s.conn
        /\ waiters' = s.waiters
        /\ micro' = s.micro
        /\ hung' = s.hung
        /\ __roomList' = s.roomList
        /\ __roomPending' = s.roomPending
        /\ queries' = s.queries
        /\ qwait' = s.qwait
        /\ inbound' = inbound
        /\ __peerConnection' = s.pc
        /\ __dataChannel' = s.dc
        /\ __rtcSdpOffer' = s.offers
        /\ __rtcCandidates' = s.cands
        /\ __caller_ringing' = s.callerRinging
        /\ __mediaStream' = s.mediaStream
        /\ __receiver_ringing' = s.receiverRinging
        /\ peerCallbacks' = s.peerCb
        /\ channels' = s.channels
        /\ receivers' = s.receivers
        /\ replayed' = Replay(replayed, IF info.op = "message" THEN info.note ELSE <<>>)
        /\ last' = [op |-> info.op, k |-> info.k, by |-> info.by, enc |-> info.enc,
                     sig |-> info.sig, to |-> info.to, note |-> Noted(info.note), res |-> s.res,
                     ev |-> s.ev, sent |-> s.sent, dlv |-> s.dlv, pev |-> s.pev, ops |-> s.ops,
                     made |-> s.made, lost |-> s.lost]

Info(op, k, by) == [op |-> op, k |-> k, by |-> by, enc |-> "", sig |-> NoSignal, note |-> <<>>, to |-> ""]

InitState ==
    /\ reconnectAttempts = 0
    /\ __socket = 0
    /\ __socket_room = NoRoom
    /\ __keepAliveInterval = 0
    /\ conn = [k \in Conns |-> FreeConn]
    /\ waiters = [k \in Conns |-> <<>>]
    /\ micro = <<>>
    /\ hung = {}
    /\ __roomList = <<>>
    /\ __roomPending = [g \in Rooms |-> 0]
    /\ queries = [q \in Queries |-> FreeQuery]
    /\ qwait = [q \in Queries |-> <<>>]
    /\ __peerConnection = [p \in PeerIds |-> <<>>]
    /\ __dataChannel = [p \in PeerIds |-> <<>>]
    /\ __rtcSdpOffer = [p \in PeerIds |-> <<>>]
    /\ __rtcCandidates = [p \in PeerIds |-> <<>>]
    /\ __caller_ringing = [p \in PeerIds |-> FALSE]
    /\ __receiver_ringing = [p \in PeerIds |-> FALSE]
    /\ __mediaStream = NoStream
    /\ peerCallbacks = [p \in PeerIds |-> FALSE]
    /\ channels = [p \in PeerIds |-> [l \in Labels |-> "none"]]
    /\ receivers = {}
    /\ last = [op |-> "init", k |-> 0, by |-> "", enc |-> "", sig |-> NoSignal, to |-> "", note |-> <<>>,
               res |-> "ok",
               ev |-> <<>>, sent |-> <<>>,
               dlv |-> <<>>, pev |-> <<>>, ops |-> <<>>, made |-> 0, lost |-> 0]
    /\ closesSinceOpen = 0
    /\ lostRoom = NoRoom
    /\ terminalErrors = 0

Init == InitState /\ inbound = NoFrame /\ replayed = <<>>

\* ------------------------------------------------------- calls of the API
\* room for one more continuation of the application
QueueRoom ==
    /\ Len(micro) < MaxQueue
    /\ __socket # 0 => Len(waiters[__socket]) < MaxQueue

\* connectRealtime(cb)
ConnectRealtime ==
    /\ CanConnect(Cur)
    /\ Commit(ConnectRealtimeCall(Cur, 0), Info("connectRealtime", 0, "user"))
    /\ terminalErrors' = 0
    /\ UNCHANGED <<closesSinceOpen, lostRoom>>

\* closeRealtime()
CloseRealtime ==
    /\ QueueRoom
    /\ Commit(CloseRealtimeCall(Cur, "user"),
              Info(IF __socket = 0 THEN "closeRealtime" ELSE "call", 0, "user"))
    /\ lostRoom' = NoRoom
    /\ UNCHANGED <<closesSinceOpen, terminalErrors>>

\* joinRealtime({ group })
JoinRealtime(group) ==
    /\ QueueRoom
    /\ IF __socket = 0
       THEN Commit(Result(Cur, "throw"), Info("joinRealtime", 0, "user"))
       ELSE Commit(Await(Cur, __socket, [kind |-> "joinRealtime", by |-> "user", sock |-> 0, group |-> group, msg |-> NoMsg, arg |-> 0]),
                   Info("call", 0, "user"))
    /\ lostRoom' = NoRoom
    /\ UNCHANGED <<closesSinceOpen, terminalErrors>>

\* an API call that starts with `let socket = __socket ? await __socket : __socket`
\* and throws when there is no socket
SocketCall(kind, target, arg) ==
    /\ QueueRoom
    /\ IF __socket = 0
       THEN Commit(Result(Cur, "throw"), Info(kind, 0, "user"))
       ELSE Commit(Await(Cur, __socket, [kind |-> kind, by |-> "user", sock |-> 0,
                                        group |-> target, msg |-> NoMsg, arg |-> arg]),
                   Info("call", 0, "user"))
    /\ UNCHANGED histVars

\* postRealtime(message, recipient)
PostRealtime(message, recipient) == SocketCall("postRealtime", recipient, message)

\* connectRTC({ recipient, dataChannelOptions }, callback)
ConnectRTC(recipient, protocols) == SocketCall("connectRTC", recipient, protocols)

\* connectRTC({ recipient, dataChannelOptions, mediaStream }, callback)
ConnectRTCMedia(recipient, protocols, stream) ==
    SocketCall("connectRTCMedia", recipient, [protocols |-> protocols, stream |-> stream])

\* the application calls a msg.receiveRTC function it was given (each one once)
ReceiveRTCMedia(h, reject, stream) ==
    /\ h \in receivers
    /\ QueueRoom
    /\ LET s == [Cur EXCEPT !.receivers = @ \ {h}]
       IN  IF __socket = 0
           THEN Commit(Result(s, "throw"), Info("receiveRTC", 0, "user"))
           ELSE Commit(Await(s, __socket, [kind |-> "receiveRTC", by |-> "user", sock |-> 0,
                                         group |-> h.peer, msg |-> NoMsg,
                                         arg |-> [offer |-> h.offer, reject |-> reject,
                                                  stream |-> stream]]),
                       Info("call", 0, "user"))
    /\ UNCHANGED histVars

ReceiveRTC(h, reject) == ReceiveRTCMedia(h, reject, NoStream)

\* the application accepts through a handle; the promises of the peer
\* connection settle later, as events of the host
AcceptRTC(h) ==
    /\ h \in receivers
    /\ QueueRoom
    /\ LET s == [Cur EXCEPT !.receivers = @ \ {h}]
       IN  IF __socket = 0
           THEN Commit(Result(s, "throw"), Info("receiveRTC", 0, "user"))
           ELSE Commit(Await(s, __socket, [kind |-> "acceptRTC", by |-> "user", sock |-> 0,
                                         group |-> h.peer, msg |-> NoMsg, arg |-> h.offer]),
                       Info("call", 0, "user"))
    /\ UNCHANGED histVars

\* closeRTC({ recipient }), also the hangup function of a pickup event
CloseRTC(recipient) ==
    /\ Commit(CloseRTCBody(Cur, recipient), Info("closeRTC", 0, "user"))
    /\ UNCHANGED histVars

\* peer.onicecandidate: a local candidate was found ("" at the end of the
\* candidates); onicecandidate runs up to its await, then the handler calls cb
IceCandidate(p, candidate) ==
    /\ micro = <<>>
    /\ __peerConnection[p] # <<>>
    /\ LET s1 == IF __socket = 0
                 THEN OnIceCandidateBody(Cur, 0, p, candidate)
                 ELSE Await(Cur, __socket, [kind |-> "icecandidate", by |-> "host", sock |-> 0,
                                           group |-> p, msg |-> NoMsg, arg |-> candidate])
           s2 == PeerEvent(s1, IF candidate # "" THEN "icecandidate" ELSE "icecandidateend")
       IN  Commit(s2, [Info("pc.onicecandidate", 0, "host") EXCEPT !.to = p])
    /\ UNCHANGED histVars

\* a negotiationneeded event of the peer connection: the handler, when the
\* peer connection has one, calls sendOffer (which runs up to its await) and
\* then the peer callback
NegotiationNeeded(p) ==
    /\ micro = <<>>
    /\ QueueRoom
    /\ __peerConnection[p] # <<>>
    /\ LET s1 == IF __socket = 0
                 THEN SendOfferBody(Cur, 0, p)
                 ELSE Await(Cur, __socket, [kind |-> "sendOffer", by |-> "host", sock |-> 0,
                                           group |-> p, msg |-> NoMsg, arg |-> 0])
       IN  IF __peerConnection[p][1].onnegotiationneeded
           THEN Commit(PeerEvent(s1, "negotiationneeded"),
                       [Info("pc.onnegotiationneeded", 0, "host") EXCEPT !.to = p])
           ELSE Commit(Result(Cur, "nohandler"),
                       [Info("pc.onnegotiationneeded", 0, "host") EXCEPT !.to = p])
    /\ UNCHANGED histVars

\* dataChannel.onopen
DataChannelOpen(p, l) ==
    /\ micro = <<>>
    /\ channels[p][l] = "connecting"
    /\ Commit(PeerEvent([Cur EXCEPT !.channels[p][l] = "open"], "open"), Info("channel.onopen", 0, "host"))
    /\ UNCHANGED histVars

\* dataChannel.onclose
DataChannelOnClose(s, p, l) ==
    LET s1 == PeerEvent([s EXCEPT !.channels[p][l] = "closed"], "close")
    IN  IF s1.dc[p] = <<>> THEN s1
        ELSE LET s2 == [s1 EXCEPT !.dc[p] = <<Without(@[1], l)>>]
             IN  IF s2.dc[p][1] = <<>> THEN CloseRTCBody(s2, p) ELSE s2

DataChannelClose(p, l) ==
    /\ micro = <<>>
    /\ channels[p][l] \in {"open", "closing"}
    /\ Commit(DataChannelOnClose(Cur, p, l), Info("channel.onclose", 0, "host"))
    /\ UNCHANGED histVars

\* peer.onconnectionstatechange
OnConnectionStateChange(s, p, state) ==
    LET s1 == PeerEvent(s, "connectionstatechange")
    IN  IF state \in {"disconnected", "failed", "closed"} THEN CloseRTCBody(s1, p) ELSE s1

ConnectionStateChange(p, state) ==
    /\ micro = <<>>
    /\ __peerConnection[p] # <<>>
    /\ Commit(OnConnectionStateChange(Cur, p, state), Info("pc.onconnectionstatechange", 0, "host"))
    /\ UNCHANGED histVars

\* the continuation at the head of the microtask queue runs
RunMicrotask ==
    /\ micro # <<>>
    /\ LET c == Head(micro)
           s == [Cur EXCEPT !.micro = Tail(@)]
       IN  CASE c.kind = "closeRealtime" ->
                  Commit(CloseRealtimeBody(s, c.sock), Info("closeRealtime", c.sock, c.by))
             [] c.kind = "joinRealtime" ->
                  Commit(JoinRealtimeBody(s, c.sock, c.group), Info("joinRealtime", c.sock, c.by))
             [] c.kind = "notice" ->
                  Commit(NoticeRest(s, c.msg), [Info("notice", c.sock, c.by) EXCEPT !.note = <<c.msg>>])
             [] c.kind = "postRealtime" ->
                  Commit(PostRealtimeBody(s, c.sock, c.group, c.arg),
                         [Info("postRealtime", c.sock, c.by) EXCEPT !.to = c.group])
             [] c.kind = "connectRTC" ->
                  Commit(ConnectRTCBody(s, c.sock, c.group, c.arg),
                         [Info("connectRTC", c.sock, c.by) EXCEPT !.to = c.group])
             [] c.kind = "connectRTCMedia" ->
                  Commit(ConnectRTCMediaBody(s, c.sock, c.group, c.arg.protocols, c.arg.stream),
                         [Info("connectRTC", c.sock, c.by) EXCEPT !.to = c.group])
             [] c.kind = "receiveRTC" ->
                  Commit(ReceiveRTCMediaBody(s, c.sock, c.group, c.arg.offer, c.arg.reject,
                                             c.arg.stream),
                         Info(IF c.arg.reject THEN "reject" ELSE "accept", c.sock, c.by))
             [] c.kind = "acceptRTC" ->
                  Commit(ReceiveRTCFrom(s, c.sock, c.group, c.arg, "start"),
                         Info("accept", c.sock, c.by))
             [] c.kind = "sdpanswer" ->
                  Commit(SdpAnswerBody(s, c.sock, c.group, c.arg), Info("sdpanswer", c.sock, c.by))
             [] c.kind = "sendOffer" ->
                  Commit(SendOfferBody(s, c.sock, c.group),
                         [Info("sendOffer", c.sock, c.by) EXCEPT !.to = c.group])
             [] c.kind = "icecandidate" ->
                  Commit(OnIceCandidateBody(s, c.sock, c.group, c.arg),
                         [Info("onicecandidate", c.sock, c.by) EXCEPT !.to = c.group])
    /\ UNCHANGED histVars

\* ------------------------------------------------------------ host events
\* the peer connection of p settles the promises its oldest suspended caller
\* waits for, and that caller continues
PeerSettles(p) ==
    /\ micro = <<>>
    /\ __peerConnection[p] # <<>>
    /\ __peerConnection[p][1].awaited # <<>>
    /\ LET w == Head(__peerConnection[p][1].awaited)
           s == [Cur EXCEPT !.pc[p][1].awaited = Tail(@)]
       IN  Commit(ReceiveRTCFrom(s, w.sock, p, w.offer, w.stage), Info("accept", w.sock, "host"))
    /\ UNCHANGED histVars

\* the setTimeout callback of connectRealtime creates the WebSocket
TimerFire(k) ==
    /\ micro = <<>>
    /\ conn[k].st = "timer"
    /\ Commit([Cur EXCEPT !.conn[k].st = "connecting", !.conn[k].delay = 0], Info("timer", k, "host"))
    /\ UNCHANGED histVars

\* the setTimeout callback throws (no profile, no session): the promise stays pending for ever
TimerFireNoAccess(k) ==
    /\ micro = <<>>
    /\ conn[k].st = "timer"
    /\ LET s == Cur
       IN  Commit([s EXCEPT !.conn[k].st = "dead", !.conn[k].delay = 0, !.res = "throw",
                            !.hung = @ \cup HungKinds(s.waiters[k]),
                            !.waiters[k] = <<>>],
                  Info("noaccess", k, "host"))
    /\ UNCHANGED histVars

\* socket.onopen
OnOpen(s, k) ==
    LET s1 == Emit([s EXCEPT !.ra = 0], "success")
        s2 == IF s1.room # NoRoom THEN Send(s1, k, [action |-> "joinRoom", rid |-> s1.room]) ELSE s1
        s3 == [s2 EXCEPT !.kai = k, !.conn[k].hb = TRUE]
    IN  \* resolve(socket): the continuations awaiting the promise become microtasks
        [s3 EXCEPT !.conn[k].opened = TRUE,
                   !.micro = @ \o [i \in 1..Len(s3.waiters[k]) |-> [s3.waiters[k][i] EXCEPT !.sock = k]],
                   !.waiters[k] = <<>>]

SocketOpen(k) ==
    /\ micro = <<>>
    /\ conn[k].st = "connecting"
    /\ Commit(OnOpen([Cur EXCEPT !.conn[k].st = "open"], k), Info("open", k, "host"))
    /\ closesSinceOpen' = 0
    /\ lostRoom' = NoRoom
    /\ UNCHANGED terminalErrors

\* socket.onclose
OnClose(s, wasClean) ==
    IF wasClean
    THEN CloseRealtimeCall(Emit(s, "close"), "clean")
    ELSE LET s1 == CloseRealtimeCall(s, "unclean")
             s2 == [s1 EXCEPT !.ra = @ + 1]
         IN  IF s2.ra < maxAttempts
             THEN ConnectRealtimeCall(Emit(s2, "reconnect"), Delay(s2.ra))
             ELSE CloseRealtimeCall(Emit(s2, "error_max"), "unclean")

\* the transport reaches CLOSED; a promise that was never resolved never will be
TransportClosed(s, k) ==
    IF s.conn[k].opened
    THEN [s EXCEPT !.conn[k].st = "closed"]
    ELSE [s EXCEPT !.conn[k].st = "closed",
                   !.hung = @ \cup HungKinds(s.waiters[k]),
                   !.waiters[k] = <<>>]

SocketClose(k, wasClean) ==
    /\ micro = <<>>
    /\ conn[k].st \in {"connecting", "open", "closing"}
    /\ conn[k].st = "connecting" => ~wasClean
    /\ LET s == TransportClosed(Cur, k)
       IN  /\ (~wasClean /\ s.ra + 1 < maxAttempts) =>
                  CanConnect([CloseRealtimeCall(s, "unclean") EXCEPT !.ra = s.ra + 1])
           /\ Commit(OnClose(s, wasClean),
                     Info("close", k, IF wasClean THEN "clean" ELSE "unclean"))
    /\ closesSinceOpen' = IF wasClean THEN closesSinceOpen ELSE closesSinceOpen + 1
    /\ lostRoom' = IF wasClean \/ reconnectAttempts + 1 >= maxAttempts THEN NoRoom
                   ELSE IF __socket_room # NoRoom THEN __socket_room ELSE lostRoom
    /\ terminalErrors' = IF ~wasClean /\ reconnectAttempts + 1 >= maxAttempts
                         THEN Min(terminalErrors + 1, 2) ELSE terminalErrors

\* socket.onerror
SocketError(k) ==
    /\ micro = <<>>
    /\ conn[k].st \in {"connecting", "open", "closing"}
    /\ Commit(Emit(Cur, "error"), Info("error", k, "host"))
    /\ UNCHANGED histVars

\* the setInterval callback of the transport k
KeepAliveTick(k) ==
    /\ micro = <<>>
    /\ conn[k].hb
    /\ Commit(IF conn[k].st = "open" THEN Send(Cur, k, [action |-> "keepAlive", rid |-> NoRoom]) ELSE Cur,
              Info("keepAlive", k, "host"))
    /\ UNCHANGED histVars

\* ------------------------------------------------- router and room tracker
\* the frames the relay delivers in the specification SpecRouter
RouterFrames ==
    {[enc |-> e, data |-> NoData] : e \in {"baduri", "badjson"}}
    \cup {[enc |-> "ok",
           data |-> [NoData EXCEPT !.notice = <<Str(x[1] \o p)>>, !.user_id = <<Str(x[1])>>,
                                   !.scid = <<Str(x[2])>>]] :
             x \in Peers, p \in {LeftPhrase, JoinedPhrase}}
    \cup {[enc |-> "ok",
           data |-> [NoData EXCEPT !.notice = <<Str("u2" \o DisconnectedPhrase)>>, !.user_id = <<Str("u2")>>,
                                   !.scid = <<Str("c1")>>]]}
    \cup {[enc |-> "ok", data |-> [NoData EXCEPT !.notice = <<Str("maintenance")>>]],
          [enc |-> "ok", data |-> [NoData EXCEPT !.notice = <<Obj("notice")>>]],
          [enc |-> "ok", data |-> [NoData EXCEPT !.private = <<Str("hello")>>, !.user_id = <<Str("u1")>>]]}

\* the lists a get-ws-group response carries
Entry(u, c) == [uid |-> UidOf(u), cid |-> "scid:" \o c]

Lists ==
    {<<>>, <<Entry("u1", "c1")>>, <<Entry("u1", "c1"), Entry("u1", "c2")>>,
     <<Entry("u1", "c2"), Entry("u2", "c1")>>}

\* the frame as a membership notice of the joined room, when it is one
MembershipNotice(raw) ==
    IF Parse(raw).ok /\ __socket_room # NoRoom
    THEN LET msg == BuildMsg(Parse(raw).data)
         IN  IF msg.type = "notice" /\ msg.message.t = "string" THEN <<msg>> ELSE <<>>
    ELSE <<>>

\* a frame arrives on the transport k
OnMessage(k, raw) ==
    /\ micro = <<>>
    /\ conn[k].st \in {"open", "closing"}
    /\ \A q \in Queries : Len(qwait[q]) < MaxAwaiting
    /\ Commit(OnMessageHandler(Cur, k, raw),
              [Info("message", k, "host") EXCEPT !.enc = raw.enc, !.sig = SignalOf(raw),
                                                 !.note = MembershipNotice(raw)])
    /\ UNCHANGED histVars

\* getRealtimeUsers({ group, user_id? })
GetRealtimeUsers(group, filtered) ==
    /\ (filtered \/ __roomPending[group] = 0) => \E q \in Queries : queries[q].st = "free"
    /\ Commit(GetRealtimeUsersCall(Cur, group, filtered), Info("getRealtimeUsers", 0, "user"))
    /\ UNCHANGED histVars

\* the response (or the failure) of the request q arrives
QuerySettle(q, ok, list) ==
    /\ micro = <<>>
    /\ queries[q].st = "flying"
    /\ Commit(RequestSettles(Cur, q, ok, list), Info("settle", q, "host"))
    /\ UNCHANGED histVars

NextRouter ==
    \/ ConnectRealtime
    \/ \E g \in RouterRooms : JoinRealtime(g)
    \/ RunMicrotask
    \/ \E k \in Conns : TimerFire(k)
    \/ \E k \in Conns : SocketOpen(k)
    \/ \E k \in Conns, raw \in RouterFrames : OnMessage(k, raw)
    \/ \E g \in RouterRooms, filtered \in BOOLEAN : GetRealtimeUsers(g, filtered)
    \/ \E q \in Queries, list \in Lists : QuerySettle(q, TRUE, list)
    \/ \E q \in Queries : QuerySettle(q, FALSE, <<>>)

SpecRouter == Init /\ [][NextRouter]_vars

\* -------------------------------------- the tracker against the notices
\* join and leave notices of two connections of one user
TrackerFrames ==
    {[enc |-> "ok",
      data |-> [NoData EXCEPT !.notice = <<Str("u1" \o p)>>, !.user_id = <<Str("u1")>>,
                              !.scid = <<Str(c)>>]] :
        c \in {"c1", "c2"}, p \in {LeftPhrase, DisconnectedPhrase, JoinedPhrase}}

TrackerLists == {<<>>, <<Entry("u1", "c1")>>}

InitTracker == InitState /\ inbound = NoFrame /\ replayed = << {} >>

NextTracker ==
    \/ ConnectRealtime
    \/ \E g \in RouterRooms : JoinRealtime(g)
    \/ RunMicrotask
    \/ \E k \in Conns : TimerFire(k)
    \/ \E k \in Conns : SocketOpen(k)
    \/ \E k \in Conns, raw \in TrackerFrames : OnMessage(k, raw)
    \/ \E g \in RouterRooms, filtered \in BOOLEAN : GetRealtimeUsers(g, filtered)
    \/ \E q \in Queries, list \in TrackerLists : QuerySettle(q, TRUE, list)
    \/ \E q \in Queries : QuerySettle(q, FALSE, <<>>)

SpecTracker == InitTracker /\ [][NextTracker]_vars

\* ------------------------------------------- classification as a function
FieldValues(texts) == {<<>>} \cup {<<Str(x)>> : x \in texts}

\* parsed objects with every combination of the keys, with empty and non-empty values
ClassifyData ==
    [message : FieldValues({"", "m"}), private : FieldValues({"", "p"}),
     notice : FieldValues({"n"}), rtc : {<<>>, <<Obj("offer")>>},
     user_id : FieldValues({"u1"}), scid : FieldValues({"c1"}), srid : FieldValues({"r1"})]

InitClassify ==
    /\ InitState
    /\ inbound \in {[enc |-> "ok", data |-> d] : d \in ClassifyData}
    /\ replayed = <<>>

\* the frame is parsed and classified, and msg is handed to the callback
ClassifyInbound ==
    /\ last.op = "init"
    /\ last' = [last EXCEPT !.op = "classify",
                            !.dlv = <<[msg |-> BuildMsg(Parse(inbound).data), roomList |-> __roomList,
                                       handle |-> FALSE]>>]
    /\ UNCHANGED <<reconnectAttempts, __socket, __socket_room, __keepAliveInterval, conn,
                   waiters, micro, hung, __roomList, __roomPending, queries, qwait, inbound,
                   closesSinceOpen, lostRoom, terminalErrors>>
    /\ UNCHANGED rtcVars
    /\ UNCHANGED replayed

SpecClassify == InitClassify /\ [][ClassifyInbound]_vars

\* -------------------------------------------- specification of the signaling
Signal(fields) == [enc |-> "ok",
                   data |-> [NoData EXCEPT !.rtc = <<Obj(fields)>>, !.user_id = <<Str("u2")>>,
                                           !.scid = <<Str("c1")>>]]

RtcFrames ==
    {Signal([NoSignal EXCEPT !.sdpoffer = o]) : o \in {"O1", "O2"}}
    \cup {Signal([NoSignal EXCEPT !.candidate = c]) : c \in {"C1", "C2"}}
    \cup {Signal([NoSignal EXCEPT !.reject = TRUE]), Signal([NoSignal EXCEPT !.pickup = TRUE]),
          Signal([NoSignal EXCEPT !.sdpanswer = "A1"])}
    \cup {[enc |-> "ok", data |-> [NoData EXCEPT !.message = <<Str("hello")>>, !.user_id = <<Str("u2")>>]],
          [enc |-> "ok", data |-> [NoData EXCEPT !.notice = <<Str("maintenance")>>]]}


AppliedLen(p) == IF __peerConnection[p] = <<>> THEN 0 ELSE Len(__peerConnection[p][1].applied)

RtcPeer == "u2"

\* a frame whose signal the handler gives to an existing peer connection at once
AppliesDirectly(raw) ==
    /\ __peerConnection[RtcPeer] # <<>>
    /\ \/ SignalOf(raw).candidate # ""
       \/ SignalOf(raw).sdpoffer # ""
       \/ SignalOf(raw).sdpanswer # ""

\* a frame arrives, within the bounds of the buffers and of the peer connection
SignalArrives(k, raw) ==
    /\ SignalOf(raw).sdpoffer # "" => Len(__rtcSdpOffer[RtcPeer]) < MaxBuffered
    /\ SignalOf(raw).candidate # "" => Len(__rtcCandidates[RtcPeer]) < MaxBuffered
    /\ AppliesDirectly(raw) => AppliedLen(RtcPeer) < MaxApplied
    /\ OnMessage(k, raw)

\* the receiving side of a call: signals of a peer, the handle, hangup
NextCall ==
    \/ ConnectRealtime
    \/ RunMicrotask
    \/ \E k \in Conns : TimerFire(k)
    \/ \E k \in Conns : SocketOpen(k)
    \/ \E k \in Conns, raw \in RtcFrames : SignalArrives(k, raw)
    \/ \E h \in receivers, reject \in BOOLEAN : AppliedLen(RtcPeer) = 0 /\ ReceiveRTC(h, reject)
    \/ CloseRTC(RtcPeer)

SpecCall == Init /\ [][NextCall]_vars

HangupFrames ==
    {Signal([NoSignal EXCEPT !.reject = TRUE]), Signal([NoSignal EXCEPT !.pickup = TRUE]),
     Signal([NoSignal EXCEPT !.sdpanswer = "A1"]), Signal([NoSignal EXCEPT !.candidate = "C1"])}

\* the dataChannelOptions of the calls: one label, two labels, one label twice
Protocols == {<<"a">>, <<"a", "b">>, <<"a", "a">>}

\* the calling side: the offer with its data channels, the peer's answers, hangup
NextHangup ==
    \/ ConnectRealtime
    \/ RunMicrotask
    \/ \E k \in Conns : TimerFire(k)
    \/ \E k \in Conns : SocketOpen(k)
    \/ \E k \in Conns, raw \in HangupFrames : SignalArrives(k, raw)
    \/ \E ls \in Protocols : ConnectRTC(RtcPeer, ls)
    \/ CloseRTC(RtcPeer)
    \/ \E l \in Labels : DataChannelOpen(RtcPeer, l)
    \/ \E l \in Labels : DataChannelClose(RtcPeer, l)
    \/ \E state \in {"connected", "failed"} : ConnectionStateChange(RtcPeer, state)

SpecHangup == Init /\ [][NextHangup]_vars

\* -------------------------------------------- specification of the addressing
Messages == {[kind |-> "value", v |-> "m1"], [kind |-> "form", v |-> "m1"]}

Recipients == {"u2", "r1"}

\* the candidates the peer connection finds; "" is the end of the candidates
LocalCandidates == {"L1", ""}

NextSend ==
    \/ ConnectRealtime
    \/ RunMicrotask
    \/ \E k \in Conns : TimerFire(k)
    \/ \E k \in Conns : SocketOpen(k)
    \/ \E g \in Recipients : JoinRealtime(g)
    \/ \E m \in Messages, r \in Recipients : PostRealtime(m, r)
    \/ \E r \in Recipients : ConnectRTC(r, <<"a">>)
    \/ \E r \in Recipients : CloseRTC(r)
    \/ \E r \in Recipients, c \in LocalCandidates : IceCandidate(r, c)

SpecSend == Init /\ [][NextSend]_vars

\* ------------------------------------------ specification of the renegotiation
NegotiateFrames ==
    {Signal([NoSignal EXCEPT !.sdpoffer = "O1"]), Signal([NoSignal EXCEPT !.pickup = TRUE]),
     Signal([NoSignal EXCEPT !.candidate = "C1"])}

\* a call made or accepted, then negotiationneeded events of its peer connection
NextNegotiate ==
    \/ ConnectRealtime
    \/ RunMicrotask
    \/ \E k \in Conns : TimerFire(k)
    \/ \E k \in Conns : SocketOpen(k)
    \/ \E k \in Conns, raw \in NegotiateFrames : SignalArrives(k, raw)
    \/ ConnectRTC(RtcPeer, <<"a">>)
    \/ \E h \in receivers : AppliedLen(RtcPeer) = 0 /\ ReceiveRTC(h, FALSE)
    \/ NegotiationNeeded(RtcPeer)
    \/ CloseRTC(RtcPeer)

SpecNegotiate == Init /\ [][NextNegotiate]_vars

\* --------------------------------------------- specification of calls with media
MediaFrames ==
    {Signal([NoSignal EXCEPT !.sdpoffer = "O1"]), Signal([NoSignal EXCEPT !.pickup = TRUE]),
     Signal([NoSignal EXCEPT !.reject = TRUE])}

\* the streams an application gives to a call; NoStream: no mediaStream parameter
Streams == {NoStream, "S1"}

\* calls with and without a media stream to the peer and to the joined room,
\* an accepted call, and the ends of a call
NextMedia ==
    \/ last.op = "init" /\ ConnectRealtime
    \/ RunMicrotask
    \/ \E k \in Conns : TimerFire(k)
    \/ \E k \in Conns : SocketOpen(k)
    \/ JoinRealtime("r1")
    \/ \E k \in Conns, raw \in MediaFrames : SignalArrives(k, raw)
    \/ \E r \in Recipients, stream \in Streams : ConnectRTCMedia(r, <<"a">>, stream)
    \/ \E h \in receivers, stream \in Streams :
          AppliedLen(RtcPeer) = 0 /\ ReceiveRTCMedia(h, FALSE, stream)
    \/ \E r \in Recipients : CloseRTC(r)
    \/ \E r \in Recipients : DataChannelOpen(r, "a")
    \/ \E r \in Recipients : DataChannelClose(r, "a")
    \/ \E state \in {"connected", "failed"} : ConnectionStateChange(RtcPeer, state)

SpecMedia == Init /\ [][NextMedia]_vars

\* ------------------------------------- specification of the automatic reconnect
\* one connectRealtime call, then unexpected closes, the reconnects that
\* follow them, and the calls of a session that goes on
NextReconnect ==
    \/ last.op = "init" /\ ConnectRealtime
    \/ RunMicrotask
    \/ \E k \in Conns : TimerFire(k)
    \/ \E k \in Conns : SocketOpen(k)
    \/ \E k \in Conns : SocketClose(k, FALSE) /\ reconnectAttempts' <= MaxSeenAttempts
    \/ JoinRealtime("r1")
    \/ \E m \in Messages : PostRealtime(m, "u2")

SpecReconnect == Init /\ [][NextReconnect]_vars

\* the frames of a call that is accepted while its signals still arrive
AcceptFrames ==
    {Signal([NoSignal EXCEPT !.sdpoffer = "O1"]), Signal([NoSignal EXCEPT !.candidate = "C1"]),
     Signal([NoSignal EXCEPT !.candidate = "C2"]), Signal([NoSignal EXCEPT !.sdpoffer = "O2"])}

\* rtc frames whose sender is the user's own id
OwnFrames ==
    {[Signal(f) EXCEPT !.data.user_id = <<Str(UserSelf)>>] :
        f \in {[NoSignal EXCEPT !.sdpoffer = "O3"], [NoSignal EXCEPT !.candidate = "C3"],
               [NoSignal EXCEPT !.reject = TRUE], [NoSignal EXCEPT !.pickup = TRUE]}}

MaxAccepted == 4

\* a frame arrives, within the bounds of the buffers and of the peer connection
AcceptSignalArrives(k, raw) ==
    /\ AppliedLen(RtcPeer) < MaxAccepted
    /\ __peerConnection[RtcPeer] = <<>>
          => Len(__rtcSdpOffer[RtcPeer]) + Len(__rtcCandidates[RtcPeer]) < MaxBuffered
    /\ OnMessage(k, raw)

\* accepting a call while the peer keeps signalling
NextAccept ==
    \/ ConnectRealtime
    \/ RunMicrotask
    \/ \E k \in Conns : TimerFire(k)
    \/ \E k \in Conns : SocketOpen(k)
    \/ \E k \in Conns, raw \in AcceptFrames : AcceptSignalArrives(k, raw)
    \/ \E k \in Conns, raw \in OwnFrames : OnMessage(k, raw)
    \/ \E h \in receivers : AcceptRTC(h)
    \/ PeerSettles(RtcPeer)

SpecAccept == Init /\ [][NextAccept]_vars

Next ==
    \/ ConnectRealtime
    \/ CloseRealtime
    \/ \E g \in Rooms \cup {NoRoom} : JoinRealtime(g)
    \/ RunMicrotask
    \/ \E k \in Conns : TimerFire(k)
    \/ \E k \in Conns : TimerFireNoAccess(k)
    \/ \E k \in Conns : SocketOpen(k)
    \/ \E k \in Conns, wasClean \in BOOLEAN :
          SocketClose(k, wasClean) /\ reconnectAttempts' <= MaxSeenAttempts
    \/ \E k \in Conns : SocketError(k)
    \/ \E k \in Conns : KeepAliveTick(k)

Spec == Init /\ [][Next]_vars

\* The reconnect loop followed up to the attempt limit: the host events and
\* connectRealtime, the only call that creates connections.
NextBackoff ==
    \/ ConnectRealtime
    \/ RunMicrotask
    \/ \E k \in Conns : TimerFire(k)
    \/ \E k \in Conns : SocketOpen(k)
    \/ \E k \in Conns, wasClean \in BOOLEAN :
          SocketClose(k, wasClean) /\ reconnectAttempts' <= MaxBackoffAttempts
    \/ \E k \in Conns : SocketError(k)

SpecBackoff == Init /\ [][NextBackoff]_vars

\* ======================================================= session manager
ConnectionPendingOrOpen ==
    /\ __socket # 0
    /\ conn[__socket].st \in {"timer", "connecting", "open"}

\* C1: connectRealtime is idempotent: whenever the connection handle holds a
\* connection that is pending (its timer scheduled, or connecting) or open, a
\* further connectRealtime call creates no new connection and leaves the
\* handle as it is.
C1_ConnectIdempotent ==
    [][(last'.op = "connectRealtime" /\ ConnectionPendingOrOpen)
          => (last'.made = 0 /\ __socket' = __socket)]_vars

\* C2: when a transport opens after the connection was lost unexpectedly with
\* a room joined, a joinRoom frame for that room is sent on the new transport.
C2_RoomResumedOnOpen ==
    [][(last'.op = "open" /\ lostRoom # NoRoom)
          => \E i \in 1..Len(last'.sent) :
                last'.sent[i] = [on |-> last'.k, live |-> TRUE,
                                 frame |-> [action |-> "joinRoom", rid |-> lostRoom]]]_vars

\* the delay the backoff rule gives for the n-th consecutive unexpected close
BackoffDelay(n) == Min(BaseDelayMs * (2 ^ n), MaxDelayMs)

ReconnectScheduled(n) ==
    /\ last.ev = <<"reconnect">>
    /\ last.made # 0
    /\ __socket = last.made
    /\ conn[last.made].st = "timer"
    /\ conn[last.made].delay = BackoffDelay(n)
    /\ \A m \in 1..(n - 1) : BackoffDelay(m) < MaxDelayMs => BackoffDelay(m) < conn[last.made].delay

\* C3 (as stated): after the n-th consecutive unexpected close, for every n,
\* a reconnect is scheduled with delay min(1000 * 2^n, 30000), one reconnect
\* event is emitted, and the delay grows strictly until the cap.
C3_BackoffAfterEveryClose ==
    (last.op = "close" /\ last.by = "unclean") => ReconnectScheduled(closesSinceOpen)

\* C3 (amended): the same for the n-th consecutive unexpected close with
\* n < 10; from the 10th on no reconnect is scheduled.
C3_BackoffBelowLimit ==
    (last.op = "close" /\ last.by = "unclean") =>
        IF closesSinceOpen < maxAttempts
        THEN ReconnectScheduled(closesSinceOpen)
        ELSE last.made = 0 /\ last.ev = <<"error_max">>

C3_Witness ==
    /\ last.op = "close" /\ last.by = "unclean"
    /\ closesSinceOpen = 5
    /\ conn[last.made].delay = MaxDelayMs

\* C4: after the 10th consecutive failed attempt exactly one terminal error
\* event is emitted and no transport is created again until the application
\* calls connectRealtime.
C4_OneTerminalErrorThenStop ==
    /\ terminalErrors <= 1
    /\ terminalErrors > 0 => last.op # "timer"

C6_CloseClearsEverything ==
    (last.op = "closeRealtime" /\ last.by = "user") =>
        /\ __keepAliveInterval = 0
        /\ __socket = 0
        /\ __socket_room = NoRoom
        /\ last.k # 0 => conn[last.k].st \in {"closing", "closed", "free"}
        /\ reconnectAttempts = 0

\* C7: keepAlive frames are sent on open transports only, and once the
\* handlers of a step have run to completion no transport that has left
\* Open still has a heartbeat timer.
C7_HeartbeatOnlyWhileOpen ==
    /\ \A i \in 1..Len(last.sent) : last.sent[i].frame.action = "keepAlive" => last.sent[i].live
    /\ micro = <<>> => \A k \in Conns : conn[k].hb => conn[k].st = "open"

\* ======================================================= inbound router
\* C8: a frame whose payload fails URL-decoding or JSON parsing is dropped:
\* the handler returns without raising, the callback is not invoked, nothing
\* is emitted or sent, and session and membership state stay as they were.
C8_MalformedFrameDropped ==
    [][(last'.op = "message" /\ last'.enc # "ok") =>
          /\ last'.res = "dropped"
          /\ last'.dlv = <<>> /\ last'.ev = <<>> /\ last'.sent = <<>>
          /\ last'.made = 0 /\ last'.lost = 0
          /\ UNCHANGED <<reconnectAttempts, __socket, __socket_room, __keepAliveInterval,
                         conn, waiters, micro, hung, __roomList, __roomPending, queries,
                         qwait>>
          /\ last'.pev = <<>> /\ last'.ops = <<>>
          /\ UNCHANGED rtcVars]_vars

C8_Witness ==
    /\ last.op = "message" /\ last.enc = "baduri"
    /\ last.res = "dropped"
    /\ __socket_room # NoRoom
    /\ __roomList # <<>>

Discriminators == {"message", "private", "notice", "rtc"}

PresentKeys(data) == {key \in Discriminators : data[key] # <<>>}

\* C9: a parsed frame that carries one discriminator key is tagged with that
\* key and delivered with that key's value as payload; sender and sender
\* room id are the values of #user_id and #srid and the sender connection id
\* is the value of #scid (in its "scid:" form), each exactly when present.
C9_ClassifiedByPresentKey ==
    last.op = "classify" =>
        LET data == inbound.data
            msg == last.dlv[1].msg
        IN  /\ Cardinality(PresentKeys(data)) = 1 =>
                  (msg.type \in PresentKeys(data) /\ msg.message = data[msg.type][1])
            /\ msg.sender = data.user_id
            /\ msg.sender_rid = data.srid
            /\ msg.sender_cid =
                  (IF data.scid = <<>> THEN <<>> ELSE <<Str("scid:" \o data.scid[1].v)>>)

\* whether the tracker that the callback sees reflects the notice it is given
NoticeApplied(d) ==
    LET kind == NoticeKind(d.msg.message.v)
        u == KeyOf(d.msg.sender)
        c == KeyOf(d.msg.sender_cid)
        member == /\ HasUser(d.roomList, __socket_room, u)
                  /\ ArrIncludes(d.roomList[__socket_room][u], c)
    IN  IF kind = "join" THEN member ELSE ~member

\* C10: every join, leave or disconnect notice received while a room is
\* joined reaches the application callback, and the tracker the callback
\* sees already has the change applied: no handler returns before the
\* callback, none is lost while it waits for a pending member query, and
\* each delivered membership notice finds its change in place.
C10_NoticeAppliedThenDelivered ==
    /\ last.res # "return"
    /\ last.lost = 0
    /\ \A i \in 1..Len(last.dlv) :
          (/\ last.dlv[i].msg.type = "notice"
           /\ last.dlv[i].msg.message.t = "string"
           /\ NoticeKind(last.dlv[i].msg.message.v) # "none"
           /\ __socket_room # NoRoom) => NoticeApplied(last.dlv[i])

\* ------------------------------------------------------------------ C11
\* C11: every frame that parses and is no membership notice of the joined
\* room (a message, a notice, an rtc signal of any kind, a reject included)
\* makes the handler call the realtime callback exactly once.
C11_EveryFrameReachesCallback ==
    (last.op = "message" /\ last.enc = "ok") => Len(last.dlv) = 1

\* ------------------------------------------------------------------ C17
\* C17: an offer arriving from a peer that has no peer connection, while the
\* application holds no unanswered handle of that peer, reaches the callback
\* once with a handle and creates no peer connection and no data channel; a
\* rejection through the handle sends exactly one reject frame to the peer
\* and creates no peer connection and no data channel.
C17_OfferWaitsForHandle ==
    [][/\ ( /\ last'.op = "message"
            /\ last'.sig.sdpoffer # ""
            /\ __peerConnection[RtcPeer] = <<>>
            /\ receivers = {} )
          => /\ Len(last'.dlv) = 1
             /\ last'.dlv[1].handle
             /\ __peerConnection'[RtcPeer] = <<>>
             /\ __dataChannel'[RtcPeer] = <<>>
       /\ last'.op = "reject"
          => /\ Len(last'.sent) = 1
             /\ last'.sent[1].frame =
                    [action |-> "rtc", uid |-> RtcPeer, content |-> [reject |-> TRUE]]
             /\ __peerConnection' = __peerConnection
             /\ __dataChannel' = __dataChannel
      ]_vars

\* ------------------------------------------------------------------ C18
\* C18: accepting a call applies to the new peer connection exactly the
\* buffered offers in arrival order and then the buffered candidates in
\* arrival order, each once.
C18_AcceptAppliesBufferedInOrder ==
    [][( /\ last'.op = "accept"
         /\ last'.res = "ok"
         /\ __peerConnection[RtcPeer] = <<>> )
       => /\ __peerConnection'[RtcPeer] # <<>>
          /\ __peerConnection'[RtcPeer][1].applied
                 = __rtcSdpOffer[RtcPeer] \o __rtcCandidates[RtcPeer]
      ]_vars

\* ------------------------------------------------------------------ C19
\* C19: a reject signal from a peer the caller has a peer connection with
\* tears the call down as a hangup does: every data channel of the peer that
\* is not closed is closed and the channel map removed, the peer connection
\* is closed and removed, and the peer callback gets exactly one
\* connection-state event.
ChannelsOf(p) == IF __dataChannel[p] = <<>> THEN {} ELSE {__dataChannel[p][1][i] : i \in 1..Len(__dataChannel[p][1])}

C19_RejectTearsDownCall ==
    [][( /\ last'.op = "message"
         /\ last'.sig.reject
         /\ __peerConnection[RtcPeer] # <<>> )
       => /\ __peerConnection'[RtcPeer] = <<>>
          /\ __dataChannel'[RtcPeer] = <<>>
          /\ __rtcSdpOffer'[RtcPeer] = <<>>
          /\ __rtcCandidates'[RtcPeer] = <<>>
          /\ \A l \in ChannelsOf(RtcPeer) : channels'[RtcPeer][l] \in {"closing", "closed"}
          /\ \A l \in ChannelsOf(RtcPeer) :
                 channels[RtcPeer][l] # "closed"
                 => \E i \in 1..Len(last'.ops) :
                        last'.ops[i] = "channel.close:" \o l \o ":" \o channels[RtcPeer][l]
          /\ last'.ops[Len(last'.ops)] = "pc.close"
          /\ last'.pev = <<"connectionstatechange">>
      ]_vars

C19_Witness ==
    /\ last.op = "message"
    /\ last.sig.reject
    /\ __caller_ringing[RtcPeer]
    /\ last.pev = <<"connectionstatechange">>
    /\ last.ops = <<"channel.close:a:open", "channel.close:b:connecting", "pc.close">>
    /\ __peerConnection[RtcPeer] = <<>>

\* ------------------------------------------------------------------ C20
\* C20: a hangup with two open data channels closes the two channels, then
\* the peer connection, and gives the peer callback exactly one
\* connection-state event; a hangup with no peer connection (a repeated one)
\* gives no event, and neither do the close events of the channels that
\* follow the hangup.
C20_HangupClosesChannelsThenPeer ==
    [][/\ ( /\ last'.op = "closeRTC"
            /\ __peerConnection[RtcPeer] # <<>>
            /\ __dataChannel[RtcPeer] = << <<"a", "b">> >>
            /\ channels[RtcPeer]["a"] = "open"
            /\ channels[RtcPeer]["b"] = "open" )
          => /\ last'.ops = <<"channel.close:a:open", "channel.close:b:open", "pc.close">>
             /\ channels'[RtcPeer]["a"] = "closing"
             /\ channels'[RtcPeer]["b"] = "closing"
       /\ (last'.op = "closeRTC" /\ __peerConnection[RtcPeer] # <<>>)
          => /\ last'.pev = <<"connectionstatechange">>
             /\ __peerConnection'[RtcPeer] = <<>>
             /\ __dataChannel'[RtcPeer] = <<>>
       /\ (last'.op = "closeRTC" /\ __peerConnection[RtcPeer] = <<>>)
          => last'.pev = <<>>
       /\ (last'.op = "channel.onclose" /\ __peerConnection[RtcPeer] = <<>>)
          => \A i \in 1..Len(last'.pev) : last'.pev[i] # "connectionstatechange"
      ]_vars

C20_Witness ==
    /\ last.op = "closeRTC"
    /\ last.ops = <<"channel.close:a:open", "channel.close:b:open", "pc.close">>
    /\ last.pev = <<"connectionstatechange">>

\* the hangup repeated: no peer connection is left and no event is given
C20_WitnessRepeated ==
    /\ last.op = "closeRTC"
    /\ last.ops = <<>>
    /\ last.pev = <<>>
    /\ \E l \in Labels : channels[RtcPeer][l] = "closing"

\* ------------------------------------------------------------------ C12
\* a joinRealtime call continues after its await, asked for group g
JoinContinues(g) ==
    IF micro = <<>> THEN FALSE
    ELSE /\ Head(micro).kind = "joinRealtime"
         /\ Head(micro).group = g
         /\ micro' = Tail(micro)
         /\ last'.op = "joinRealtime"

OneJoinRoomFrame(g) ==
    /\ Len(last'.sent) = 1
    /\ last'.sent[1].frame = [action |-> "joinRoom", rid |-> g]
    /\ __socket_room' = g

\* C12 as stated: every joinRealtime(group) sends one joinRoom frame carrying
\* the group (null to leave) and records the group as the single joined room.
C12_JoinSendsOneFrame ==
    [][\A g \in Rooms \cup {NoRoom} : JoinContinues(g) => OneJoinRoomFrame(g)]_vars

\* C12: joinRealtime(group) sends exactly one joinRoom frame carrying the
\* group (null to leave) and records the group as the single joined room,
\* replacing a previous room without a leave frame of its own; a leave while
\* no room is joined sends no frame and leaves the state as it is.
C12_JoinSendsOneFrameUnlessNothingToLeave ==
    [][\A g \in Rooms \cup {NoRoom} :
          JoinContinues(g)
          => IF g = NoRoom /\ __socket_room = NoRoom
             THEN last'.sent = <<>> /\ __socket_room' = NoRoom
             ELSE OneJoinRoomFrame(g)
      ]_vars

\* room r2 joined by a frame that was sent on the open connection
C12_Witness ==
    /\ last.op = "joinRealtime"
    /\ last.res = "ok"
    /\ Len(last.sent) = 1
    /\ last.sent[1].live
    /\ last.sent[1].frame = [action |-> "joinRoom", rid |-> "r2"]
    /\ __socket_room = "r2"

\* ------------------------------------------------------------------ C13
\* the unfiltered get-ws-group requests of group g that are in flight
UnfilteredInFlight(g) ==
    {q \in Queries : queries[q].st = "flying" /\ ~queries[q].filtered /\ queries[q].group = g}

\* C13: at most one unfiltered get-ws-group request per group is in flight:
\* while one is, a further unfiltered query issues no request.
C13_OneUnfilteredRequestPerGroup ==
    \A g \in RouterRooms : Cardinality(UnfilteredInFlight(g)) <= 1

\* ------------------------------------------------------------------ C14
\* nothing of the tracker is pending: no continuation is queued and no notice
\* waits for a request
TrackerSettled ==
    /\ micro = <<>>
    /\ \A q \in Queries : qwait[q] = <<>>

\* C14: once nothing is pending, the membership the tracker holds for the
\* joined room contains every connection that the replay of the received
\* join and leave notices, in the order of receipt, leaves in the room (the
\* snapshots only add entries), and holds no connection twice.
C14_TrackerHoldsReplayedNotices ==
    (replayed # <<>> /\ __socket_room # NoRoom /\ TrackerSettled)
    => /\ \A e \in replayed[1] :
              /\ HasUser(__roomList, __socket_room, e[1])
              /\ ArrIncludes(__roomList[__socket_room][e[1]], e[2])
       /\ \A u \in UsersOf(__roomList, __socket_room) :
              \A i, j \in 1..Len(__roomList[__socket_room][u]) :
                  i # j => __roomList[__socket_room][u][i] # __roomList[__socket_room][u][j]

\* ------------------------------------------------------------------ C15
\* postRealtime(m, r) continues after its await on a transport that is open
PostContinues(r, m) ==
    IF micro = <<>> THEN FALSE
    ELSE /\ Head(micro).kind = "postRealtime"
         /\ Head(micro).group = r
         /\ Head(micro).arg = m
         /\ micro' = Tail(micro)
         /\ last'.op = "postRealtime"
         /\ conn[last'.k].st = "open"

OneFrame(frame) == Len(last'.sent) = 1 /\ last'.sent[1].frame = frame

\* C15: a send to the joined room produces exactly one broadcast frame with
\* rid = recipient, a send to a user id exactly one sendMessage frame with
\* uid = recipient, and the content is the same in both cases.
C15_WireActionFollowsRecipient ==
    [][\A r \in Recipients, m \in Messages :
          PostContinues(r, m)
          => /\ r = __socket_room
                => OneFrame([action |-> "broadcast", rid |-> r, content |-> ExtractFormData(m)])
             /\ (UserId(r) /\ r # __socket_room)
                => OneFrame([action |-> "sendMessage", uid |-> r, content |-> ExtractFormData(m)])
      ]_vars

\* ------------------------------------------------------------------ C16
\* a call that addresses a frame (postRealtime, connectRTC) continues on an open transport
AddressingStep ==
    /\ last'.op \in {"postRealtime", "connectRTC"}
    /\ last'.k # 0
    /\ conn[last'.k].st = "open"

\* C16: a frame is broadcast to a room (broadcast, rtcBroadcast) only when the
\* recipient of the call is exactly the joined room; a recipient that is
\* neither accepted as a user id nor the joined room makes the call fail and
\* no frame is sent.
C16_BroadcastOnlyToJoinedRoom ==
    [][/\ \A i \in 1..Len(last'.sent) :
             last'.sent[i].frame.action \in {"broadcast", "rtcBroadcast"}
             => /\ __socket_room # NoRoom
                /\ last'.sent[i].frame.rid = __socket_room
                /\ last'.to = __socket_room
       /\ (AddressingStep /\ ~UserId(last'.to) /\ last'.to # __socket_room)
          => (last'.res = "throw" /\ last'.sent = <<>>)
      ]_vars

\* a send to r1 while another room is joined fails and sends nothing
C16_Witness ==
    /\ last.op = "postRealtime"
    /\ last.to = "r1"
    /\ __socket_room = "u2"
    /\ conn[last.k].st = "open"
    /\ last.res = "throw"
    /\ last.sent = <<>>

\* an offer broadcast to the joined room
C16_WitnessBroadcast ==
    /\ last.op = "connectRTC"
    /\ last.to = "r1"
    /\ __socket_room = "r1"
    /\ Len(last.sent) = 1
    /\ last.sent[1].frame.action = "rtcBroadcast"

\* ------------------------------------------------------------------ C21
\* the peer was set up by connectRTC or by an accepted call and torn down since
ClosedPeer(p) == peerCallbacks[p] /\ __peerConnection[p] = <<>>

\* C21: a candidate, an answer, a pickup or a reject arriving for a peer that
\* was torn down changes no state kept for a peer, gives nothing to a peer
\* connection or to the peer callback, and raises no error.
C21_SignalAfterCloseIsNoOp ==
    [][( /\ last'.op = "message"
         /\ ClosedPeer(RtcPeer)
         /\ last'.sig # NoSignal
         /\ last'.sig.sdpoffer = "" )
       => /\ UNCHANGED rtcVars
          /\ last'.res # "throw"
          /\ last'.pev = <<>>
          /\ last'.ops = <<>>
      ]_vars

\* ------------------------------------------------------------------ C22
\* connectRTC(p, ls) continues after its await on a transport that is open
ConnectContinues(p, ls) ==
    IF micro = <<>> THEN FALSE
    ELSE /\ Head(micro).kind = "connectRTC"
         /\ Head(micro).group = p
         /\ Head(micro).arg = ls
         /\ micro' = Tail(micro)
         /\ last'.op = "connectRTC"
         /\ conn[last'.k].st = "open"

\* the request asks for a label the peer has already, or for one label twice
DuplicateLabel(p, ls) ==
    \/ \E i \in 1..Len(ls) : ls[i] \in ChannelsOf(p)
    \/ \E i, j \in 1..Len(ls) : i # j /\ ls[i] = ls[j]

\* C22: connectRTC asking for a data-channel label that exists for the peer
\* (from an earlier call or earlier in the same request) throws, sends no
\* offer and leaves the peer's data channels, peer connection and registered
\* callback as they were.
C22_DuplicateLabelChangesNothing ==
    [][\A ls \in Protocols :
          (ConnectContinues(RtcPeer, ls) /\ DuplicateLabel(RtcPeer, ls))
          => /\ last'.res = "throw"
             /\ last'.sent = <<>>
             /\ __dataChannel' = __dataChannel
             /\ channels' = channels
             /\ __peerConnection' = __peerConnection
             /\ peerCallbacks' = peerCallbacks
      ]_vars

\* ------------------------------------------------------------------ C23
\* onicecandidate continues after its await for the peer r
CandidateContinues(r) ==
    IF micro = <<>> THEN FALSE
    ELSE /\ Head(micro).kind = "icecandidate"
         /\ Head(micro).group = r
         /\ micro' = Tail(micro)
         /\ last'.op = "onicecandidate"

\* the frame that carries content to r the way the offer of connectRTC was addressed
AddressedAsOffer(r, content) ==
    IF UserId(r) THEN [action |-> "rtc", uid |-> r, content |-> content]
    ELSE [action |-> "rtcBroadcast", rid |-> r, content |-> content]

\* C23: every non-empty local candidate of a peer whose offer was sent is
\* forwarded in exactly one frame, addressed as the offer was (rtc with uid,
\* or rtcBroadcast with rid); the end of the candidates sends no frame.
C23_CandidateForwardedAsOffer ==
    [][\A r \in Recipients :
          CandidateContinues(r)
          => IF Head(micro).arg = ""
             THEN last'.sent = <<>>
             ELSE (__peerConnection[r] # <<>> /\ __caller_ringing[r])
                  => OneFrame(AddressedAsOffer(r, [candidate |-> Head(micro).arg]))
      ]_vars

\* ------------------------------------------------------------------ C24
\* nothing is kept for the peer p
NoPeerState(p) ==
    /\ __peerConnection[p] = <<>>
    /\ __dataChannel[p] = <<>>
    /\ __rtcSdpOffer[p] = <<>>
    /\ __rtcCandidates[p] = <<>>
    /\ ~__caller_ringing[p]
    /\ ~__receiver_ringing[p]

\* C24: when closeRTC has run for a peer, nothing is kept for that peer: no
\* peer connection, no data channel, no buffered offer or candidate, no
\* caller or receiver ringing flag.
C24_TeardownLeavesNoPeerState ==
    (last.op = "closeRTC") => NoPeerState(RtcPeer)

\* ------------------------------------------------------------------ C25
\* the application has called closeRealtime and the call waits for the attempt k
CloseRequested(k) ==
    \E i \in 1..Len(waiters[k]) : waiters[k][i].kind = "closeRealtime" /\ waiters[k][i].by = "user"

\* C25: a reconnect timer that is pending when closeRealtime is called is
\* cancelled: it opens no transport afterwards.
C25_CloseCancelsReconnect ==
    [][\A k \in Conns :
          (conn[k].st = "timer" /\ conn[k].delay > 0 /\ CloseRequested(k))
          => conn'[k].st # "connecting"
      ]_vars

\* ------------------------------------------------------------------ C26
\* C26: while an unfiltered membership query of the joined room is in flight,
\* no frame and no deferred notice changes the membership map.
C26_NoticesWaitForQuery ==
    [][( /\ __socket_room # NoRoom
         /\ UnfilteredInFlight(__socket_room) # {}
         /\ last'.op \in {"message", "notice"} )
       => __roomList' = __roomList
      ]_vars

\* ------------------------------------------------------------------ C27
\* C27: the pending-query entry of a group is present exactly while an
\* unfiltered query of the group is in flight, and it is that query.
C27_PendingEntryIffUnfilteredInFlight ==
    \A g \in RouterRooms :
        IF __roomPending[g] = 0
        THEN UnfilteredInFlight(g) = {}
        ELSE UnfilteredInFlight(g) = {__roomPending[g]}

\* ------------------------------------------------------------------ C28
\* an array that holds at least one element and no element twice
NonEmptySet(arr) ==
    /\ Len(arr) >= 1
    /\ \A i, j \in 1..Len(arr) : (arr[i] = arr[j]) => (i = j)

\* every user entry of the membership map holds a non-empty set of connection ids
EntriesNonEmpty(rl) ==
    \A g \in DOMAIN rl : \A u \in DOMAIN rl[g] : NonEmptySet(rl[g][u])

\* the step is the handling of a frame, at once or after the wait for a member query
NoticeStep == last'.op \in {"message", "notice"}

\* C28: every user entry in the membership map holds a non-empty set of
\* connection ids after every step: the user's entry goes with its last
\* connection id; and no group entry is removed by the handling of a notice.
C28_EntriesNonEmptyGroupsKept ==
    [][/\ EntriesNonEmpty(__roomList')
       /\ NoticeStep => (DOMAIN __roomList \subseteq DOMAIN __roomList')]_vars

\* a leave notice removed the last connection id of the only tracked user:
\* the user's entry is gone and the group entry is still there
C28_Witness ==
    /\ last.op \in {"message", "notice"}
    /\ Len(last.dlv) = 1
    /\ NoticeKind(last.dlv[1].msg.message.v) = "leave"
    /\ __socket_room \in DOMAIN __roomList
    /\ DOMAIN __roomList[__socket_room] = {}

\* ------------------------------------------------------------------ C29
\* the step applied a membership notice (it did not put it behind a member query)
NoticeHandled == last'.note # <<>> /\ last'.res # "await"

\* the notice of the step is a join for a tracked connection id, or a leave or
\* disconnect for a connection id that is not tracked
NothingToDo ==
    LET n == last'.note[1]
        kind == NoticeKind(n.msg.message.v)
    IN  \/ kind = "join" /\ n.tracked
        \/ kind = "leave" /\ ~n.tracked

\* C29: a join notice for a connection id already tracked for its user, and a
\* leave or disconnect notice for a connection id that is not tracked, leave
\* the membership map exactly as it was: nothing is added twice and no other
\* entry is removed.
C29_RedundantNoticeChangesNothing ==
    [][(NoticeHandled /\ NothingToDo) => (__roomList' = __roomList)]_vars

\* a second join notice for a tracked connection id was handled
C29_Witness ==
    /\ last.note # <<>>
    /\ last.res = "return"
    /\ NoticeKind(last.note[1].msg.message.v) = "join"
    /\ last.note[1].tracked

\* a leave notice for an untracked connection id of a user with another
\* connection was handled
C29_WitnessLeave ==
    /\ last.note # <<>>
    /\ last.res = "return"
    /\ NoticeKind(last.note[1].msg.message.v) = "leave"
    /\ ~last.note[1].tracked

\* ------------------------------------------------------------------ C30
\* the remote offers and candidates of the signalling frames
RemoteOffers == {"O1", "O2"}

RemoteCandidates == {"C1", "C2"}

\* what has been given to the peer connection of the peer, in order
AppliedTo(pcs) == IF pcs[RtcPeer] = <<>> THEN <<>> ELSE pcs[RtcPeer][1].applied

\* C30: when a call is accepted, no buffered remote candidate of the peer is
\* given to the new peer connection before a remote description was set on
\* that peer connection, and the buffered candidates are given to it in the
\* order they arrived in.
C30_BufferedCandidatesAfterDescription ==
    [][( /\ last'.op = "accept"
         /\ __peerConnection[RtcPeer] = <<>> )
       => LET applied == AppliedTo(__peerConnection')
              cs == SelectSeq(applied, LAMBDA x : x \in RemoteCandidates)
          IN  /\ cs \in {<<>>, __rtcCandidates[RtcPeer]}
              /\ \A i \in 1..Len(applied) :
                    (applied[i] \in RemoteCandidates)
                        => \E j \in 1..(i - 1) : applied[j] \in RemoteOffers
      ]_vars

\* a call was accepted with two candidates in the buffer: they followed the offer
C30_Witness ==
    /\ last.op = "accept"
    /\ last.res = "ok"
    /\ LET applied == AppliedTo(__peerConnection)
       IN  /\ Len(applied) >= 3
           /\ applied[1] \in RemoteOffers
           /\ applied[2] = "C2"
           /\ applied[3] = "C1"

\* ------------------------------------------------------------------ C31
\* a sendOffer for the peer has been started and waits for its turn
OfferUnderway(p) ==
    \/ \E i \in 1..Len(micro) : micro[i].kind = "sendOffer" /\ micro[i].group = p
    \/ \E k \in Conns : \E i \in 1..Len(waiters[k]) :
          waiters[k][i].kind = "sendOffer" /\ waiters[k][i].group = p

\* C31: a negotiationneeded event on the peer connection of a connected call
\* (one that does not wait for the pickup of the peer) starts the offer step
\* again, and the offer step sends one new offer frame to the peer while the
\* call exists; the data channels, the buffered offers and the buffered
\* candidates of the peer stay as they were.
C31_NegotiationRestartsOffer ==
    [][/\ ( /\ last'.op = "pc.onnegotiationneeded"
            /\ ~__caller_ringing[RtcPeer]
            /\ __socket # 0 )
          => /\ OfferUnderway(RtcPeer)'
             /\ __dataChannel' = __dataChannel
             /\ __rtcSdpOffer' = __rtcSdpOffer
             /\ __rtcCandidates' = __rtcCandidates
       /\ (last'.op = "sendOffer" /\ __peerConnection[RtcPeer] # <<>>)
          => /\ Len(last'.sent) = 1
             /\ last'.sent[1].frame =
                    [action |-> "rtc", uid |-> RtcPeer, content |-> [sdpoffer |-> "local"]]
             /\ __dataChannel' = __dataChannel
             /\ __rtcSdpOffer' = __rtcSdpOffer
             /\ __rtcCandidates' = __rtcCandidates
      ]_vars

\* ------------------------------------------------------------------ C32
\* the call with the peer is destroyed by the step
Destroyed(p) == __peerConnection[p] # <<>> /\ __peerConnection'[p] = <<>>

\* tracks of a media stream were added to the peer connection of the call
CarriesMedia(p) == __peerConnection[p][1].tracks # NoStream

\* the step is the close event of the one data channel left in the map of the peer
LastChannelCloses(p) ==
    /\ last'.op = "channel.onclose"
    /\ __dataChannel[p] # <<>>
    /\ Len(__dataChannel[p][1]) = 1
    /\ channels[p][__dataChannel[p][1][1]] # "closed"
    /\ channels'[p][__dataChannel[p][1][1]] = "closed"

\* C32: a call is destroyed only by a hangup, by a reject of the peer, by a
\* terminal connection state, or by the closing of its last data channel when
\* it carries no media; the closing of the last data channel destroys a call
\* without media and leaves a call with media in place.
C32_CallDestroyedOnlyOnItsEnds ==
    [][\A p \in Recipients :
          /\ Destroyed(p)
             => \/ last'.op = "closeRTC"
                \/ last'.op = "message" /\ last'.sig.reject
                \/ last'.op = "pc.onconnectionstatechange"
                \/ LastChannelCloses(p) /\ ~CarriesMedia(p)
          /\ (LastChannelCloses(p) /\ __peerConnection[p] # <<>>)
             => IF CarriesMedia(p)
                THEN __peerConnection'[p] = __peerConnection[p]
                ELSE __peerConnection'[p] = <<>>
      ]_vars

\* ------------------------------------------------------------------ C39
\* the pickup event of the step exposes the stream
Exposes(stream) == \E i \in 1..Len(last.pev) : last.pev[i] = "pickup:" \o stream

\* the step is the pickup of the call with the peer: the peer's pickup frame
\* on the calling side, the accepted call on the receiving side
PickupStep == last.op = "accept" \/ (last.op = "message" /\ last.sig.pickup)

\* C39: the pickup event of a call that asked for no media never exposes the
\* media stream of the call made to another peer (here one that is still ringing).
C39_PickupExposesOwnStream ==
    [][\A q \in Recipients \ {RtcPeer}, stream \in Streams \ {NoStream} :
          ( /\ PickupStep'
            /\ __peerConnection'[RtcPeer] # <<>>
            /\ __peerConnection'[RtcPeer][1].tracks = NoStream
            /\ __peerConnection'[q] # <<>>
            /\ __caller_ringing'[q]
            /\ __peerConnection'[q][1].tracks = stream )
          => ~Exposes(stream)'
      ]_vars

\* ------------------------------------------------------------------ C33
\* a transport of the session is open
SomeTransportOpen == \E k \in Conns : conn[k].st = "open"

\* C33: when a transport opens after an unexpected close, with no further
\* connectRealtime call of the application, the connection handle holds that
\* transport; and a postRealtime or joinRealtime call made while a transport
\* is open does not fail for want of a connection.
C33_HandleFollowsReconnect ==
    [][/\ (last'.op = "open" /\ closesSinceOpen > 0) => (__socket' = last'.k)
       /\ ( /\ last'.op \in {"postRealtime", "joinRealtime"}
            /\ last'.by = "user"
            /\ SomeTransportOpen )
          => last'.res # "throw"
      ]_vars

\* ------------------------------------------------------------------ C34
\* the step is the rest of a closeRealtime that awaited another attempt than
\* the one the connection handle holds now
SupersededCloseRuns ==
    IF micro = <<>> THEN FALSE
    ELSE /\ Head(micro).kind = "closeRealtime"
         /\ micro' = Tail(micro)
         /\ last'.op = "closeRealtime"
         /\ __socket # 0
         /\ Head(micro).sock # __socket

\* a closeRealtime call of the application has not finished yet
ClosePending ==
    \/ \E i \in 1..Len(micro) : micro[i].kind = "closeRealtime" /\ micro[i].by = "user"
    \/ \E k \in Conns : CloseRequested(k)

\* C34: the rest of a closeRealtime that belongs to a superseded transport
\* leaves the connection handle, the joined room and the state of the current
\* transport as they are; and a connectRealtime call made while a closeRealtime
\* call is still pending starts a new connection that the handle then holds.
C34_SupersededCloseIsHarmless ==
    [][/\ SupersededCloseRuns
          => /\ __socket' = __socket
             /\ __socket_room' = __socket_room
             /\ conn'[__socket].st = conn[__socket].st
       /\ (last'.op = "connectRealtime" /\ ClosePending)
          => /\ last'.made # 0
             /\ __socket' = last'.made
      ]_vars

\* ------------------------------------------------------------------ C35
\* an earlier call attempt of the peer is over: its handle was used to reject
\* it, or the peer was closed locally while it was unanswered
AttemptOver(p) ==
    /\ __receiver_ringing[p]
    /\ __peerConnection[p] = <<>>
    /\ receivers = {} \/ __rtcSdpOffer[p] = <<>>

\* the elements of a sequence
Range(q) == {q[i] : i \in 1..Len(q)}

\* C35: after a call attempt of a peer is over, the next offer of that peer
\* reaches the callback with a pickup/reject handle again; and an accepted
\* call gives the new peer connection only offers and candidates that were
\* buffered for the attempt that is accepted.
C35_NextAttemptAnswerable ==
    [][/\ ( /\ last'.op = "message"
            /\ last'.sig.sdpoffer # ""
            /\ AttemptOver(RtcPeer) )
          => /\ Len(last'.dlv) = 1
             /\ last'.dlv[1].handle
       /\ ( /\ last'.op = "accept"
            /\ __peerConnection[RtcPeer] = <<>> )
          => Range(AppliedTo(__peerConnection'))
                \subseteq Range(__rtcSdpOffer[RtcPeer]) \cup Range(__rtcCandidates[RtcPeer])
      ]_vars

\* ------------------------------------------------------------------ C36
\* the call of p is being accepted: its peer connection exists and the accept
\* has not finished
BeingAccepted(p) == __peerConnection[p] # <<>> /\ __receiver_ringing[p]

\* the step gives an item that has just arrived to the peer connection
AppliesArrival ==
    /\ last'.op \in {"message", "sdpanswer"}
    /\ AppliedLen(RtcPeer)' > AppliedLen(RtcPeer)

\* C36: while an inbound call is being accepted, an offer or candidate that
\* arrives is given to the peer connection only after a remote description
\* and after every item that was buffered before it, so that the items are
\* applied in the order they arrived.
C36_AcceptKeepsArrivalOrder ==
    [][(BeingAccepted(RtcPeer) /\ AppliesArrival)
          => /\ AppliedLen(RtcPeer) > 0
             /\ Range(__rtcSdpOffer[RtcPeer]) \cup Range(__rtcCandidates[RtcPeer])
                   \subseteq Range(AppliedTo(__peerConnection))
      ]_vars

\* ------------------------------------------------------------------ C40
\* the handler runs for a frame that carries the user's own id as sender
OwnFrameArrives == \E k \in Conns, raw \in OwnFrames : OnMessage(k, raw)

\* what the callback got in the step is exactly the frame raw, with no handle
OnlyDelivered(raw) ==
    /\ last'.dlv = <<[msg |-> BuildMsg(raw.data), roomList |-> __roomList, handle |-> FALSE]>>
    /\ last'.sent = <<>>
    /\ last'.pev = <<>>
    /\ last'.ops = <<>>

\* C40: an rtc frame whose sender is the local user's own id changes no
\* signalling state (peer connections, channels, buffers, ringing marks,
\* handles, pending continuations); it is only passed to the callback.
C40_OwnFramesOnlyDelivered ==
    [][\A k \in Conns, raw \in OwnFrames :
          OnMessage(k, raw)
             => /\ UNCHANGED rtcVars
                /\ UNCHANGED <<micro, waiters, hung, __socket, __socket_room, __roomList>>
                /\ OnlyDelivered(raw)
      ]_vars

\* an own frame with an offer was delivered while a call of the peer was being
\* accepted and items of the peer were still buffered
C40_Witness ==
    /\ last.op = "message"
    /\ last.sig.sdpoffer = "O3"
    /\ Len(last.dlv) = 1
    /\ KeyOf(last.dlv[1].msg.sender) = UserSelf
    /\ BeingAccepted(RtcPeer)
    /\ __rtcCandidates[RtcPeer] # <<>>

\* ------------------------------------------------------------------ C37
\* a frame received earlier has not reached the callback yet: its handler is
\* suspended on an in-flight member query, or resumed but not run
EarlierFrameWaits ==
    \/ \E q \in Queries : \E i \in 1..Len(qwait[q]) : qwait[q][i].kind = "notice"
    \/ \E i \in 1..Len(micro) : micro[i].kind = "notice"

\* C37: the realtime callback gets the delivered frames in the order they
\* were received: no frame is passed to the callback while a frame received
\* before it is still waiting to be passed.
C37_DeliveryInReceiptOrder ==
    [][(last'.op = "message" /\ last'.dlv # <<>>) => ~EarlierFrameWaits]_vars

\* ------------------------------------------------------------------ C38
\* C38: every call of postRealtime, joinRealtime, connectRTC or closeRealtime
\* made after connectRealtime eventually settles: no such call is ever left
\* awaiting the promise of a connection attempt that can no longer resolve
\* (the transport was never created, or closed before it opened).
C38_NoCallLeftHanging ==
    hung \cap {"postRealtime", "joinRealtime", "connectRTC", "closeRealtime"} = {}

====
